---- MODULE Spec2Model ----
(***************************************************************************)
(* Model of the email processing pipeline of delta-gmail-ai-autolabel:     *)
(*   - EmailProcessingService (src/services/email_processing_service.py):  *)
(*     process_email, process_new_emails, _schedule_retry,                 *)
(*     get_processing_state, with every await as a suspension point;       *)
(*   - classify_document and classify_batch of the Docling and Gemini      *)
(*     classifiers (src/classifiers/docling.py, src/classifiers/gemini.py) *)
(*     with the DomainConfig lookups they use;                             *)
(*   - ClassifierFactory (src/classifiers/factory.py): register, create    *)
(*     and list, one step each;                                            *)
(*   - SecurityService (src/services/security_service.py): verify_email    *)
(*     with its three checks, the audit log and the alert;                 *)
(*   - DomainConfig (src/classifiers/domain_config.py) built from a        *)
(*     configuration directory with VersionChecker                         *)
(*     (src/utils/version_checker.py), _identify_client and                *)
(*     get_document_type on the object built.                              *)
(* Confidences are integers in units of 0.005.                             *)
(* Strings built by the code are sequences of tokens; a Python object is   *)
(* named by the call frame that created it.                                *)
(***************************************************************************)
EXTENDS Integers, Sequences, FiniteSets, TLC

\* ------------------------------------------------------------------ bounds
MaxCalls == 2
NumIds == 2
MaxBatch == 2
MaxSources == 3
MaxConcurrent == 2
MaxInstances == 2
MaxAttachments == 2

Calls == 1..MaxCalls
Ids == 1..NumIds
\* Python's None: in a scalar field, where an object is expected, where a
\* call or a message id is expected
NONE == "None"
Null == [none |-> TRUE]
NoCall == 0

\* --------------------------------------------------------------- constants
ProcessingStatus == {"PENDING", "PROCESSING", "COMPLETED", "FAILED", "RETRYING"}

Checks == <<"sender_verification", "attachment_scan", "content_safety">>

PipelineSteps == {"verify_email", "extract_content", "classify", "store_processed_email"}

\* the message of the exception each collaborator raises when it fails
ExcMsg == [verify_email |-> "verify_email failed",
           extract_content |-> "extract_content failed",
           classify |-> "classify failed",
           store_processed_email |-> "store_processed_email failed",
           log_success |-> "log_success failed",
           send_error |-> "send_error failed",
           log_error |-> "log_error failed",
           get_unread_inbox |-> "get_unread_inbox failed"]

Exception(op) == [by |-> op, msg |-> ExcMsg[op]]

\* a Python string, as its sequence of tokens (None is Null)
Text(tokens) == [text |-> tokens]

\* str(e)
Str(e) == Text(<<e.msg>>)

\* datetime.utcnow(): a value that is not None
utcnow == "utcnow"

Sender(m) == <<"sender", m>>
Subject(m) == <<"subject", m>>

\* ------------------------------------------------------------------ helpers
RECURSIVE Join(_, _)
\* sep.join(seq), as a token sequence
Join(sep, seq) ==
  IF Len(seq) = 0 THEN <<>>
  ELSE IF Len(seq) = 1 THEN <<seq[1]>>
  ELSE <<seq[1], sep>> \o Join(sep, Tail(seq))

RECURSIVE Count(_, _)
Count(seq, x) ==
  IF Len(seq) = 0 THEN 0
  ELSE (IF seq[1] = x THEN 1 ELSE 0) + Count(Tail(seq), x)

Range(seq) == {seq[i] : i \in 1..Len(seq)}

RECURSIVE SubSeqOf(_, _)
\* the entries of seq that are in S, in the order of seq
SubSeqOf(seq, S) ==
  IF Len(seq) = 0 THEN <<>>
  ELSE (IF seq[1] \in S THEN <<seq[1]>> ELSE <<>>) \o SubSeqOf(Tail(seq), S)

\* the verdict verify_email builds from the checks that failed
SecurityVerificationResult(failed) ==
  [is_safe |-> Len(failed) = 0, checks_failed |-> failed]

\* the checks verify_email runs on a message without attachments
\* (security_service.py line 62 skips attachment_scan)
MessageChecks == SubSeqOf(Checks, {"sender_verification", "content_safety"})

\* the verdicts verify_email can return for such a message
SecurityVerdicts ==
  {SecurityVerificationResult(SubSeqOf(MessageChecks, S)) :
     S \in SUBSET Range(MessageChecks)}

\* lists of distinct message ids the inbox can return
InboxLists ==
  {q \in UNION {[1..n -> Ids] : n \in 0..MaxBatch} :
     \A i, j \in 1..Len(q) : i # j => q[i] # q[j]}

\* -------------------------------------------------------------------- state
VARIABLES
  nCalls,            \* process_email calls made so far
  pc,                \* per call: the await it is suspended at
  message,           \* per call: the message argument (its id)
  owner,             \* per call: "direct" or "batch" (called by process_new_emails)
  exc,               \* per call: the exception e bound by the except clause
  security_result,   \* per call: the verdict returned by verify_email
  state,             \* per call: the EmailProcessingState object it created
  trace,             \* per call: collaborator methods invoked, in order
  processing_queue,  \* id -> the object stored under it
  raised,            \* per call: the exception that left process_email
  batch_pc,          \* process_new_emails: where it is suspended
  batch_messages,    \* the list get_unread_inbox returned
  batch_results,     \* results, as references to the objects appended
  batch_exc,         \* the exception e bound by its except clause
  batch_raised,      \* the exception that left process_new_emails
  batch_trace,       \* collaborator methods process_new_emails invoked itself
  cb_backend,        \* classify_batch: the classifier it is called on
  cb_sources,        \* its sources argument
  cb_metadata,       \* its metadata argument
  cb_max_concurrent, \* its max_concurrent argument
  cb_pc,             \* where the call is
  cb_i,              \* the loop variable i
  cb_tasks,          \* the classify_document tasks of the chunk being gathered
  cb_results,        \* the results list
  cd_backend,        \* classify_document: the classifier it is called on
  cd_source_type,    \* its source_type argument
  cd_file,           \* the state of the file its source names
  cd_metadata,       \* its metadata argument
  cd_clients,        \* the clients of the domain configuration
  cd_pc,             \* where the call is
  cd_outcome,        \* what the backend yielded
  cd_result,         \* the ClassificationResult returned
  cd_raised,         \* the exception that left classify_document
  registry,          \* ClassifierFactory._registry
  latest,            \* name -> the class last registered under it (history)
  env_api_key,       \* whether GOOGLE_API_KEY is set in the environment
  instances,         \* classifier instances constructed so far
  factory_call,      \* the last call made on the factory and how it ended
  sv_message,        \* verify_email: its message argument
  sv_blocked,        \* SecurityService.blocked_senders
  sv_pc,             \* where the call is
  sv_passed,         \* its checks_passed list
  sv_failed,         \* its checks_failed list
  sv_log,            \* the calls made on the audit and notification services
  sv_result,         \* the SecurityVerificationResult it built
  dc_dir,            \* the rule files of the configuration directory
  dc_version_control,\* the content of version_control.yaml
  dc_pc,             \* DomainConfig: not built, built, or failed to build
  dc_self,           \* the attributes of the DomainConfig object
  dc_warnings,       \* the warnings logged while it was built
  dc_raised,         \* the exception that left the constructor
  dc_query           \* the last query made on it and its answer

callVars == <<nCalls, pc, message, owner, exc, security_result, state, trace,
              processing_queue, raised>>
batchVars == <<batch_pc, batch_messages, batch_results, batch_exc, batch_raised,
               batch_trace>>
classifyVars == <<cb_backend, cb_sources, cb_metadata, cb_max_concurrent, cb_pc,
                  cb_i, cb_tasks, cb_results>>
documentVars == <<cd_backend, cd_source_type, cd_file, cd_metadata, cd_clients,
                  cd_pc, cd_outcome, cd_result, cd_raised>>
factoryVars == <<registry, latest, env_api_key, instances, factory_call>>
securityVars == <<sv_message, sv_blocked, sv_pc, sv_passed, sv_failed, sv_log,
                  sv_result>>
domainVars == <<dc_dir, dc_version_control, dc_pc, dc_self, dc_warnings, dc_raised,
                dc_query>>
vars == <<callVars, batchVars, classifyVars, documentVars, factoryVars,
          securityVars, domainVars>>

EmailProcessingState(m) ==
  [email_id |-> m, status |-> "PROCESSING", started_at |-> utcnow,
   completed_at |-> NONE, error |-> Null, retry_count |-> 0,
   metadata |-> [sender |-> Sender(m), subject |-> Subject(m)]]

InitService ==
  /\ nCalls = 0
  /\ pc = [c \in Calls |-> "idle"]
  /\ message = [c \in Calls |-> NoCall]
  /\ owner = [c \in Calls |-> NONE]
  /\ exc = [c \in Calls |-> Null]
  /\ security_result = [c \in Calls |-> Null]
  /\ state = [c \in Calls |-> Null]
  /\ trace = [c \in Calls |-> <<>>]
  /\ processing_queue = [i \in Ids |-> NoCall]
  /\ raised = [c \in Calls |-> Null]
  /\ batch_pc = "idle"
  /\ batch_messages = <<>>
  /\ batch_results = <<>>
  /\ batch_exc = Null
  /\ batch_raised = Null
  /\ batch_trace = <<>>

\* no classify_batch call is made
InitNoClassify ==
  /\ cb_backend = NONE
  /\ cb_sources = <<>>
  /\ cb_metadata = Null
  /\ cb_max_concurrent = 1
  /\ cb_pc = "idle"
  /\ cb_i = 0
  /\ cb_tasks = <<>>
  /\ cb_results = <<>>

\* no classify_document call is made
InitNoDocument ==
  /\ cd_backend = NONE
  /\ cd_source_type = NONE
  /\ cd_file = NONE
  /\ cd_metadata = NONE
  /\ cd_clients = {}
  /\ cd_pc = "idle"
  /\ cd_outcome = Null
  /\ cd_result = Null
  /\ cd_raised = Null

\* the factory as the class statement leaves it (factory.py 17-23), in a
\* process without GOOGLE_API_KEY
InitNoFactory ==
  /\ registry = [gemini |-> "GeminiClassifier", docling |-> "DoclingClassifier"]
  /\ latest = registry
  /\ env_api_key = FALSE
  /\ instances = 0
  /\ factory_call = Null

\* no verify_email call is made
InitNoSecurity ==
  /\ sv_message = Null
  /\ sv_blocked = {}
  /\ sv_pc = "idle"
  /\ sv_passed = <<>>
  /\ sv_failed = <<>>
  /\ sv_log = <<>>
  /\ sv_result = Null

\* no DomainConfig is built
InitNoDomain ==
  /\ dc_dir = Null
  /\ dc_version_control = Null
  /\ dc_pc = "idle"
  /\ dc_self = Null
  /\ dc_warnings = <<>>
  /\ dc_raised = Null
  /\ dc_query = Null

Init ==
  /\ InitService /\ InitNoClassify /\ InitNoDocument /\ InitNoFactory
  /\ InitNoSecurity /\ InitNoDomain

\* get_processing_state(email_id): the stored object, or None
get_processing_state(id) ==
  IF processing_queue[id] = NoCall THEN Null ELSE state[processing_queue[id]]

\* ------------------------------------------------- process_email, lines 77-143
\* lines 81-91 run by a new call n: create the record, store it, await verify_email
LaunchFrame(n, m, o, pcB, stateB, traceB) ==
  /\ nCalls' = n
  /\ pc' = [pcB EXCEPT ![n] = "verify_email"]
  /\ message' = [message EXCEPT ![n] = m]
  /\ owner' = [owner EXCEPT ![n] = o]
  /\ state' = [stateB EXCEPT ![n] = EmailProcessingState(m)]
  /\ trace' = [traceB EXCEPT ![n] = <<"verify_email">>]
  /\ processing_queue' = [processing_queue EXCEPT ![m] = n]

\* BatchContinue leaving the loop when the record that came back is FAILED
BatchContinueStopsOnFailure(c, stateB, traceB) ==
  LET results == Append(batch_results, c) IN
  /\ batch_results' = results
  /\ UNCHANGED <<batch_messages, batch_exc, batch_raised, batch_trace>>
  /\ IF Len(results) < Len(batch_messages) /\ stateB[c].status # "FAILED"
     THEN /\ nCalls < MaxCalls
          /\ batch_pc' = batch_pc
          /\ LaunchFrame(nCalls + 1, batch_messages[Len(results) + 1], "batch",
                         [pc EXCEPT ![c] = "returned"], stateB, traceB)
     ELSE /\ batch_pc' = "done"
          /\ pc' = [pc EXCEPT ![c] = "returned"]
          /\ state' = stateB
          /\ trace' = traceB
          /\ UNCHANGED <<nCalls, message, owner, processing_queue>>

\* process_new_emails after process_email call c returned: lines 67-70
BatchContinue(c, stateB, traceB) ==
  LET results == Append(batch_results, c) IN
  /\ batch_results' = results
  /\ UNCHANGED <<batch_messages, batch_exc, batch_raised, batch_trace>>
  /\ IF Len(results) < Len(batch_messages)
     THEN /\ nCalls < MaxCalls
          /\ batch_pc' = batch_pc
          /\ LaunchFrame(nCalls + 1, batch_messages[Len(results) + 1], "batch",
                         [pc EXCEPT ![c] = "returned"], stateB, traceB)
     ELSE /\ batch_pc' = "done"
          /\ pc' = [pc EXCEPT ![c] = "returned"]
          /\ state' = stateB
          /\ trace' = traceB
          /\ UNCHANGED <<nCalls, message, owner, processing_queue>>

\* process_new_emails when process_email call c raised e: lines 72-73
BatchCatch(c, e, stateB, traceB) ==
  /\ batch_exc' = e
  /\ batch_trace' = Append(batch_trace, "send_error")
  /\ batch_pc' = "send_error"
  /\ pc' = [pc EXCEPT ![c] = "raised"]
  /\ state' = stateB
  /\ trace' = traceB
  /\ UNCHANGED <<batch_messages, batch_results, batch_raised>>
  /\ UNCHANGED <<nCalls, message, owner, processing_queue>>

\* call c returns its state object to its caller (lines 104, 122, 143)
Return(c, stateB, traceB) ==
  /\ UNCHANGED <<exc, security_result, raised>>
  /\ IF owner[c] = "direct"
     THEN /\ pc' = [pc EXCEPT ![c] = "returned"]
          /\ state' = stateB
          /\ trace' = traceB
          /\ UNCHANGED <<nCalls, message, owner, processing_queue>>
          /\ UNCHANGED batchVars
     ELSE BatchContinue(c, stateB, traceB)

\* exception e leaves call c (raised inside the except clause, lines 128-141)
Raise(c, e) ==
  /\ raised' = [raised EXCEPT ![c] = e]
  /\ UNCHANGED <<exc, security_result>>
  /\ IF owner[c] = "direct"
     THEN /\ pc' = [pc EXCEPT ![c] = "raised"]
          /\ UNCHANGED <<nCalls, message, owner, processing_queue, state, trace>>
          /\ UNCHANGED batchVars
     ELSE BatchCatch(c, e, state, trace)

\* lines 124-128: the except clause catches e and awaits the first notification
EnterHandler(c, e) ==
  /\ exc' = [exc EXCEPT ![c] = e]
  /\ state' = [state EXCEPT ![c].error = Str(e), ![c].completed_at = utcnow]
  /\ trace' = [trace EXCEPT ![c] = Append(@, "send_error")]
  /\ pc' = [pc EXCEPT ![c] = "handler_send_error"]
  /\ UNCHANGED <<nCalls, message, owner, security_result, processing_queue, raised>>
  /\ UNCHANGED batchVars

\* no process_email call and no process_new_emails call is in progress
Quiescent ==
  /\ \A c \in Calls : pc[c] \in {"idle", "returned", "raised"}
  /\ batch_pc \in {"idle", "done", "raised"}

\* a caller invokes process_email(message) directly and awaits it
process_email(m) ==
  /\ UNCHANGED <<classifyVars, documentVars, factoryVars, securityVars, domainVars>>
  /\ Quiescent
  /\ nCalls < MaxCalls
  /\ LaunchFrame(nCalls + 1, m, "direct", pc, state, trace)
  /\ UNCHANGED <<exc, security_result, raised>>
  /\ UNCHANGED batchVars

\* a caller starts process_email(message) as a task while other calls are
\* suspended at an await
process_email_task(m) ==
  /\ UNCHANGED <<classifyVars, documentVars, factoryVars, securityVars, domainVars>>
  /\ ~Quiescent
  /\ nCalls < MaxCalls
  /\ LaunchFrame(nCalls + 1, m, "direct", pc, state, trace)
  /\ UNCHANGED <<exc, security_result, raised>>
  /\ UNCHANGED batchVars

\* SecurityError naming only the first failed check
SecurityErrorFirstCheck(result) ==
  Text(<<"Email failed security verification: ", result.checks_failed[1]>>)

\* line 94: the error text of a rejected email
SecurityError(result) ==
  Text(<<"Email failed security verification: ">> \o Join(", ", result.checks_failed))

\* lines 91-107: verify_email returned verdict v
VerifyReturns(c, v) ==
  /\ UNCHANGED <<classifyVars, documentVars, factoryVars, securityVars, domainVars>>
  /\ pc[c] = "verify_email"
  /\ security_result' = [security_result EXCEPT ![c] = v]
  /\ IF ~v.is_safe
     THEN /\ state' = [state EXCEPT ![c].status = "FAILED",
                                    ![c].error = SecurityError(v),
                                    ![c].completed_at = utcnow]
          /\ trace' = [trace EXCEPT ![c] = Append(@, "send_error")]
          /\ pc' = [pc EXCEPT ![c] = "reject_send_error"]
     ELSE /\ state' = state
          /\ trace' = [trace EXCEPT ![c] = Append(@, "extract_content")]
          /\ pc' = [pc EXCEPT ![c] = "extract_content"]
  /\ UNCHANGED <<nCalls, message, owner, exc, processing_queue, raised>>
  /\ UNCHANGED batchVars

\* lines 96-100: the rejection notification returned
RejectNotifyReturns(c) ==
  /\ UNCHANGED <<classifyVars, documentVars, factoryVars, securityVars, domainVars>>
  /\ pc[c] = "reject_send_error"
  /\ trace' = [trace EXCEPT ![c] = Append(@, "log_error")]
  /\ pc' = [pc EXCEPT ![c] = "reject_log_error"]
  /\ UNCHANGED <<nCalls, message, owner, exc, security_result, state,
                 processing_queue, raised>>
  /\ UNCHANGED batchVars

\* lines 100-104: the rejection audit returned; return state
RejectAuditReturns(c) ==
  /\ UNCHANGED <<classifyVars, documentVars, factoryVars, securityVars, domainVars>>
  /\ pc[c] = "reject_log_error"
  /\ Return(c, state, trace)

\* lines 107-110
ExtractReturns(c) ==
  /\ UNCHANGED <<classifyVars, documentVars, factoryVars, securityVars, domainVars>>
  /\ pc[c] = "extract_content"
  /\ trace' = [trace EXCEPT ![c] = Append(@, "classify")]
  /\ pc' = [pc EXCEPT ![c] = "classify"]
  /\ UNCHANGED <<nCalls, message, owner, exc, security_result, state,
                 processing_queue, raised>>
  /\ UNCHANGED batchVars

\* ClassifyReturns marking the record COMPLETED before persistence is awaited
ClassifyReturnsCompleted(c) ==
  /\ UNCHANGED <<classifyVars, documentVars, factoryVars, securityVars, domainVars>>
  /\ pc[c] = "classify"
  /\ state' = [state EXCEPT ![c].status = "COMPLETED", ![c].completed_at = utcnow]
  /\ trace' = [trace EXCEPT ![c] = Append(@, "store_processed_email")]
  /\ pc' = [pc EXCEPT ![c] = "store_processed_email"]
  /\ UNCHANGED <<nCalls, message, owner, exc, security_result, processing_queue,
                 raised>>
  /\ UNCHANGED batchVars

\* lines 110-113
ClassifyReturns(c) ==
  /\ UNCHANGED <<classifyVars, documentVars, factoryVars, securityVars, domainVars>>
  /\ pc[c] = "classify"
  /\ trace' = [trace EXCEPT ![c] = Append(@, "store_processed_email")]
  /\ pc' = [pc EXCEPT ![c] = "store_processed_email"]
  /\ UNCHANGED <<nCalls, message, owner, exc, security_result, state,
                 processing_queue, raised>>
  /\ UNCHANGED batchVars

\* lines 113-120: persistence returned; mark COMPLETED and await the success audit
StoreReturns(c) ==
  /\ UNCHANGED <<classifyVars, documentVars, factoryVars, securityVars, domainVars>>
  /\ pc[c] = "store_processed_email"
  /\ state' = [state EXCEPT ![c].status = "COMPLETED", ![c].completed_at = utcnow]
  /\ trace' = [trace EXCEPT ![c] = Append(@, "log_success")]
  /\ pc' = [pc EXCEPT ![c] = "log_success"]
  /\ UNCHANGED <<nCalls, message, owner, exc, security_result, processing_queue,
                 raised>>
  /\ UNCHANGED batchVars

\* lines 120-122
LogSuccessReturns(c) ==
  /\ UNCHANGED <<classifyVars, documentVars, factoryVars, securityVars, domainVars>>
  /\ pc[c] = "log_success"
  /\ Return(c, state, trace)

\* a pipeline step (verify_email, extract_content, classify,
\* store_processed_email) raises: caught at line 124
StepRaises(c) ==
  /\ UNCHANGED <<classifyVars, documentVars, factoryVars, securityVars, domainVars>>
  /\ pc[c] \in PipelineSteps
  /\ EnterHandler(c, Exception(pc[c]))

\* lines 128-129
HandlerNotifyReturns(c) ==
  /\ UNCHANGED <<classifyVars, documentVars, factoryVars, securityVars, domainVars>>
  /\ pc[c] = "handler_send_error"
  /\ trace' = [trace EXCEPT ![c] = Append(@, "log_error")]
  /\ pc' = [pc EXCEPT ![c] = "handler_log_error"]
  /\ UNCHANGED <<nCalls, message, owner, exc, security_result, state,
                 processing_queue, raised>>
  /\ UNCHANGED batchVars

\* RetriesExhausted comparing with a retry bound of 1 instead of 0
RetriesExhaustedAfterBound(retry_count) == retry_count > 1

\* line 134: the test that decides between FAILED and a retry
RetriesExhausted(retry_count) == retry_count > 0

\* lines 145-150: _schedule_retry, applied to the object stored under the id
schedule_retry(st) ==
  [st EXCEPT !.retry_count = @ + 1,
             !.status = "RETRYING",
             !.error = Text(<<"Retry attempt ", st.retry_count + 1, "/3">>)]

\* lines 129-143: the error audit returned; count the attempt and decide
HandlerAuditReturns(c) ==
  /\ UNCHANGED <<classifyVars, documentVars, factoryVars, securityVars, domainVars>>
  /\ pc[c] = "handler_log_error"
  /\ LET counted == [state EXCEPT ![c].retry_count = @ + 1] IN
     IF RetriesExhausted(counted[c].retry_count)
     THEN /\ state' = [counted EXCEPT ![c].status = "FAILED"]
          /\ trace' = [trace EXCEPT ![c] = Append(@, "send_error")]
          /\ pc' = [pc EXCEPT ![c] = "final_send_error"]
          /\ UNCHANGED <<nCalls, message, owner, exc, security_result,
                         processing_queue, raised>>
          /\ UNCHANGED batchVars
     ELSE LET q == processing_queue[message[c]] IN
          Return(c, [counted EXCEPT ![q] = schedule_retry(counted[q])], trace)

\* lines 136-143
FinalNotifyReturns(c) ==
  /\ UNCHANGED <<classifyVars, documentVars, factoryVars, securityVars, domainVars>>
  /\ pc[c] = "final_send_error"
  /\ Return(c, state, trace)

\* an audit or notification call awaited inside the try block raises
\* (lines 96, 100, 120): caught at line 124
SinkRaisesInTry(c) ==
  /\ UNCHANGED <<classifyVars, documentVars, factoryVars, securityVars, domainVars>>
  /\ pc[c] \in {"reject_send_error", "reject_log_error", "log_success"}
  /\ EnterHandler(c, Exception(trace[c][Len(trace[c])]))

\* an audit or notification call awaited inside the except clause raises
\* (lines 128, 129, 136): nothing catches it in process_email
SinkRaisesInHandler(c) ==
  /\ UNCHANGED <<classifyVars, documentVars, factoryVars, securityVars, domainVars>>
  /\ pc[c] \in {"handler_send_error", "handler_log_error", "final_send_error"}
  /\ Raise(c, Exception(trace[c][Len(trace[c])]))

\* --------------------------------------------- process_new_emails, lines 59-75
\* lines 61-70: the inbox returns msgs; the first process_email call starts
BatchStart(msgs) ==
  /\ UNCHANGED <<classifyVars, documentVars, factoryVars, securityVars, domainVars>>
  /\ Quiescent
  /\ batch_pc = "idle"
  /\ batch_messages' = msgs
  /\ batch_trace' = <<"get_unread_inbox">>
  /\ UNCHANGED <<batch_results, batch_exc, batch_raised>>
  /\ UNCHANGED <<exc, security_result, raised>>
  /\ IF Len(msgs) > 0
     THEN /\ nCalls < MaxCalls
          /\ batch_pc' = "process_email"
          /\ LaunchFrame(nCalls + 1, msgs[1], "batch", pc, state, trace)
     ELSE /\ batch_pc' = "done"
          /\ UNCHANGED <<nCalls, pc, message, owner, state, trace, processing_queue>>

\* BatchFetchFails propagating the failure without notifying or auditing
BatchFetchFailsUnreported ==
  /\ UNCHANGED <<classifyVars, documentVars, factoryVars, securityVars, domainVars>>
  /\ Quiescent
  /\ batch_pc = "idle"
  /\ batch_exc' = Exception("get_unread_inbox")
  /\ batch_raised' = Exception("get_unread_inbox")
  /\ batch_trace' = <<"get_unread_inbox">>
  /\ batch_pc' = "raised"
  /\ UNCHANGED <<batch_messages, batch_results>>
  /\ UNCHANGED callVars

\* lines 63, 72-73: get_unread_inbox raises
BatchFetchFails ==
  /\ UNCHANGED <<classifyVars, documentVars, factoryVars, securityVars, domainVars>>
  /\ Quiescent
  /\ batch_pc = "idle"
  /\ batch_exc' = Exception("get_unread_inbox")
  /\ batch_trace' = <<"get_unread_inbox", "send_error">>
  /\ batch_pc' = "send_error"
  /\ UNCHANGED <<batch_messages, batch_results, batch_raised>>
  /\ UNCHANGED callVars

\* lines 73-74
BatchNotifyReturns ==
  /\ UNCHANGED <<classifyVars, documentVars, factoryVars, securityVars, domainVars>>
  /\ batch_pc = "send_error"
  /\ batch_trace' = Append(batch_trace, "log_error")
  /\ batch_pc' = "log_error"
  /\ UNCHANGED <<batch_messages, batch_results, batch_exc, batch_raised>>
  /\ UNCHANGED callVars

\* lines 74-75: re-raise the exception that was caught
BatchAuditReturns ==
  /\ UNCHANGED <<classifyVars, documentVars, factoryVars, securityVars, domainVars>>
  /\ batch_pc = "log_error"
  /\ batch_raised' = batch_exc
  /\ batch_pc' = "raised"
  /\ UNCHANGED <<batch_messages, batch_results, batch_exc, batch_trace>>
  /\ UNCHANGED callVars

\* lines 73-74: a sink call of the except clause raises
BatchSinkRaises ==
  /\ UNCHANGED <<classifyVars, documentVars, factoryVars, securityVars, domainVars>>
  /\ batch_pc \in {"send_error", "log_error"}
  /\ batch_raised' = Exception(batch_pc)
  /\ batch_pc' = "raised"
  /\ UNCHANGED <<batch_messages, batch_results, batch_exc, batch_trace>>
  /\ UNCHANGED callVars

\* ------------------------------------ classification of one document: values
Backends == {"docling", "gemini"}

EntityKeys == {"companies", "products", "states"}
KeyFieldKeys == {"dates", "registration_numbers", "amounts"}

\* a confidence of h hundredths; the unit is 0.005, so that the mean of two
\* confidences given in hundredths is exact
Hundredths(h) == 2 * h

Min(a, b) == IF a < b THEN a ELSE b

\* a Python dict is a function on its keys; {} is the function on no key
EmptyDict == [k \in {} |-> <<>>]

\* d.get(k, default)
Get(d, k, default) == IF k \in DOMAIN d THEN d[k] ELSE default

\* d[k] = v
SetKey(d, k, v) == [x \in DOMAIN d \cup {k} |-> IF x = k THEN v ELSE d[x]]

\* any(d.values()) for a dict of lists
AnyList(d) == \E k \in DOMAIN d : d[k] # <<>>

\* list(set(seq)): the distinct entries of seq (the lists of this model have
\* at most one distinct entry, so the order set() yields does not show)
ListOfSet(seq) ==
  CHOOSE q \in [1..Cardinality(Range(seq)) -> Range(seq)] : Range(q) = Range(seq)

\* an exception raised inside classify_document
Error(type, msg) == [type |-> type, msg |-> msg]
IsError(v) == "type" \in DOMAIN v

\* get_classifier_info()["name"]
ClassifierName(backend) ==
  IF backend = "docling" THEN "Docling Classifier" ELSE "Gemini Flash Classifier"

\* metadata dicts a caller passes per source: an empty one and one with the
\* subject of the email the document came with
MetadataDicts == {"{}", "{email_subject}"}
SourceMetadata == {NONE} \cup MetadataDicts

\* Python truth of a per-source metadata value (None and {} are false)
Truthy(md) == md \notin {NONE, "{}"}

\* _extract_entities_from_text(metadata["email_subject"]): the subject of the
\* model's emails names the state CA and no company
SubjectEntities == [companies |-> <<>>, states |-> <<"CA">>]

\* DomainConfig.validate_registration_number: true when the state has no
\* rule; CA, the state of this model, has one and it admits REG- numbers only
validate_registration_number(number, jurisdiction) ==
  ~(jurisdiction = "CA" /\ number = "LIC-9")

\* the numbers of a list that some state of the list validates
ValidNumbers(numbers, states) ==
  SelectSeq(numbers,
            LAMBDA n : \E i \in 1..Len(states) :
                         validate_registration_number(n, states[i]))

\* clients.yaml: the client codes configured (none when the file is missing)
ClientConfigs == {{}, {"EEA"}}

\* ClassificationResult(...): pydantic validates the fields on construction;
\* a metadata value must be a bool, int, float, str or list of str, so a dict
\* (source_metadata) or None (base_type) is refused
ClassificationResult(fields) ==
  IF \/ "source_metadata" \in DOMAIN fields.metadata
     \/ /\ "base_type" \in DOMAIN fields.metadata
        /\ fields.metadata.base_type = NONE
  THEN Error("ValidationError", "1 validation error for ClassificationResult")
  ELSE fields

\* _create_error_result of either backend (the Gemini one leaves client_code
\* to its default, None)
_create_error_result(backend, error_message) ==
  [document_type |-> NONE,
   client_code |-> NONE,
   confidence |-> Hundredths(0),
   entities |-> [k \in EntityKeys |-> <<>>],
   key_fields |-> [k \in KeyFieldKeys |-> <<>>],
   metadata |-> [error |-> error_message, classifier |-> ClassifierName(backend)],
   summary |-> NONE,
   flags |-> <<"CLASSIFICATION_ERROR">>]

\* the flags both _generate_flags build, in the order they append them
Flags(low, no_type, no_entities, no_dates, no_numbers, no_category) ==
  (IF low THEN <<"LOW_CONFIDENCE">> ELSE <<>>)
    \o (IF no_type THEN <<"MISSING_DOCUMENT_TYPE">> ELSE <<>>)
    \o (IF no_entities THEN <<"NO_ENTITIES_FOUND">> ELSE <<>>)
    \o (IF no_dates THEN <<"NO_DATES_FOUND">> ELSE <<>>)
    \o (IF no_numbers THEN <<"NO_REGISTRATION_NUMBERS">> ELSE <<>>)
    \o (IF no_category THEN <<"NO_PRODUCT_CATEGORY_MATCH">> ELSE <<>>)

\* a ratio that is not divided by its total
ScoreNotNormalised(score, total) ==
  IF total > 0 THEN Hundredths(100 * score) ELSE Hundredths(0)

\* round(score / total, 2) if total > 0 else 0.0: the nearest hundredth; the
\* halves that occur (eighths of the weights) lie below the half in binary
\* floating point and round down
RatioOrZero(score, total) ==
  IF total > 0 THEN Hundredths((200 * score + total - 1) \div (2 * total))
  ELSE Hundredths(0)

\* the number of conditions of a list that hold
RECURSIVE CountTrue(_)
CountTrue(conds) ==
  IF Len(conds) = 0 THEN 0
  ELSE (IF conds[1] THEN 1 ELSE 0) + CountTrue(Tail(conds))

\* ------------------------------------------------- DoclingClassifier, docling.py
\* what the Docling processor and the domain configuration read off a document
DoclingDocuments ==
  [document_type : {NONE, "registration"},
   companies : {<<>>, <<"Test Corp">>},
   products : {<<>>, <<"BioForce">>},
   states : {<<>>, <<"CA">>},
   dates : {<<>>, <<"2024-02-11">>},
   registration_numbers : {<<>>, <<"REG-1">>, <<"LIC-9">>},
   product_categories : {<<>>, <<"fertilizer">>},
   extraction_confidence : {Hundredths(0), Hundredths(95), Hundredths(100)}]

\* lines 232-260
_extract_key_fields(doc) ==
  [dates |-> doc.dates,
   registration_numbers |->
     IF doc.states # <<>> THEN ValidNumbers(doc.registration_numbers, doc.states)
     ELSE doc.registration_numbers,
   amounts |-> <<>>]

\* lines 125-163: the dict the conversion starts from
_extract_document_info(doc) ==
  [document_type |-> doc.document_type,
   entities |-> [companies |-> doc.companies, products |-> doc.products,
                 states |-> doc.states],
   key_fields |-> _extract_key_fields(doc),
   summary |-> "summary",
   metadata |-> [confidence |-> doc.extraction_confidence,
                 product_categories |-> doc.product_categories]]

\* lines 165-192
docling_enhance_with_metadata(doc_result, md) ==
  LET r == [doc_result EXCEPT !.metadata = SetKey(@, "source_metadata", md)]
  IN IF md = "{email_subject}"
     THEN [r EXCEPT
             !.entities.companies = ListOfSet(@ \o SubjectEntities.companies),
             !.entities.states = ListOfSet(@ \o SubjectEntities.states)]
     ELSE r

\* lines 328-353: score and total_checks are incremented together
docling_calculate_domain_confidence(result) ==
  LET n == CountTrue(<<
             Get(result, "document_type", NONE) # NONE,
             Get(Get(result, "entities", EmptyDict), "states", <<>>) # <<>>,
             Get(Get(result, "metadata", EmptyDict), "product_categories", <<>>) # <<>>,
             Get(Get(result, "key_fields", EmptyDict), "registration_numbers", <<>>) # <<>> >>)
  IN RatioOrZero(n, n)

\* lines 355-382
docling_generate_flags(result, confidence) ==
  LET key_fields == Get(result, "key_fields", EmptyDict)
  IN Flags(confidence < Hundredths(50),
           Get(result, "document_type", NONE) = NONE,
           ~AnyList(Get(result, "entities", EmptyDict)),
           Get(key_fields, "dates", <<>>) = <<>>,
           Get(key_fields, "registration_numbers", <<>>) = <<>>,
           Get(Get(result, "metadata", EmptyDict), "product_categories", <<>>) = <<>>)

\* lines 262-289: _load_client_patterns() maps a client code to its data dict,
\* so "for pattern in patterns" walks the keys of that dict and
\* pattern.search is looked up on a str; without clients nothing matches
_identify_client(clients, doc_text, companies) ==
  IF clients # {}
  THEN Error("AttributeError", "'str' object has no attribute 'search'")
  ELSE [client_code |-> NONE, confidence |-> Hundredths(0)]

\* lines 291-326
docling_convert_to_classification_result(raw_result, clients) ==
  LET base_confidence == Get(Get(raw_result, "metadata", EmptyDict), "confidence", Hundredths(0))
      domain_confidence == docling_calculate_domain_confidence(raw_result)
      confidence == (base_confidence + domain_confidence) \div 2
      flags == docling_generate_flags(raw_result, confidence)
      metadata == SetKey(SetKey(Get(raw_result, "metadata", EmptyDict),
                                "classifier", ClassifierName("docling")),
                         "domain_confidence", domain_confidence)
      client == _identify_client(clients, Get(raw_result, "summary", ""),
                                 Get(Get(raw_result, "entities", EmptyDict), "companies", <<>>))
  IN IF IsError(client) THEN client
     ELSE ClassificationResult(
            [document_type |-> Get(raw_result, "document_type", NONE),
             client_code |-> client.client_code,
             confidence |-> Min(confidence, client.confidence),
             entities |-> Get(raw_result, "entities", EmptyDict),
             key_fields |-> Get(raw_result, "key_fields", EmptyDict),
             metadata |-> metadata,
             summary |-> Get(raw_result, "summary", NONE),
             flags |-> flags])

\* lines 49-80, the body of the try: outcome is what the processor yields for
\* the source, a document or the exception it raised
docling_try(source_type, exists, md, clients, outcome) ==
  IF source_type = "file" /\ ~exists
  THEN Error("FileNotFoundError", "File not found")
  ELSE IF source_type \notin {"file", "bytes", "text"}
  THEN Error("ValueError", "Unsupported source type")
  ELSE IF IsError(outcome) THEN outcome
  ELSE LET doc_result == _extract_document_info(outcome)
       IN docling_convert_to_classification_result(
            IF Truthy(md) THEN docling_enhance_with_metadata(doc_result, md)
            ELSE doc_result,
            clients)

\* --------------------------------------------------- GeminiClassifier, gemini.py
\* what the domain configuration finds in a document text: the document type
\* (canonical name and base type), states, product categories and the
\* (code, matched name) pairs of known companies
Texts ==
  [document_type : {NONE, "registration"},
   states : {<<>>, <<"CA">>},
   product_categories : {<<>>, <<"fertilizer">>},
   company_codes : {<<>>}]
    \cup {[document_type |-> "registration", states |-> <<"CA">>,
           product_categories |-> <<"fertilizer">>,
           company_codes |-> << <<"EEA", "Elemental Enzymes">> >>]}

\* the text in which the configuration finds nothing ('' when the key is absent)
EmptyText ==
  [document_type |-> NONE, states |-> <<>>, product_categories |-> <<>>,
   company_codes |-> <<>>]

\* the "entities" and "key_fields" objects the model can answer with: every
\* key, some keys, or no key
GeminiEntities ==
  {EmptyDict}
    \cup {[companies |-> c] : c \in {<<>>, <<"Test Corp">>}}
    \cup {[companies |-> <<>>, products |-> p, states |-> <<>>] :
            p \in {<<>>, <<"BioForce">>}}
    \cup {[companies |-> <<"Test Corp">>, products |-> <<>>, states |-> <<>>]}

GeminiKeyFields ==
  {[dates |-> d] : d \in {<<>>, <<"2024-02-11">>}}
    \cup {[dates |-> <<>>, registration_numbers |-> <<>>, amounts |-> <<>>]}
    \cup {[dates |-> <<"2024-02-11">>, registration_numbers |-> n, amounts |-> <<>>] :
            n \in {<<"REG-1">>, <<"LIC-9">>}}

\* json.loads(response.text): a dict that has document_type (null when the
\* model found none), summary and text, and may lack entities and key_fields
GeminiOutputs ==
  LET base == [document_type : {NONE, "registration"},
               summary : {NONE, "summary"},
               text : Texts]
  IN UNION {{b, SetKey(b, "entities", e), SetKey(b, "key_fields", f),
             SetKey(SetKey(b, "entities", e), "key_fields", f)} :
              b \in base, e \in GeminiEntities, f \in GeminiKeyFields}

\* DomainConfig.get_document_type, get_states, get_company_codes,
\* get_product_categories applied to the text
get_document_type(text) ==
  <<text.document_type, IF text.document_type = NONE THEN NONE ELSE "registration">>
get_states(text) == text.states
get_company_codes(text) == text.company_codes
get_product_categories(text) == text.product_categories

\* lines 190-204: the subject's entities are appended to raw_result["entities"]
gemini_enhance_with_metadata(raw_result, md) ==
  LET r == SetKey(raw_result, "metadata",
                  SetKey(Get(raw_result, "metadata", EmptyDict), "source_metadata", md))
  IN IF md # "{email_subject}" THEN r
     ELSE IF "entities" \notin DOMAIN r THEN Error("KeyError", "'entities'")
     ELSE IF "companies" \notin DOMAIN r.entities THEN Error("KeyError", "'companies'")
     ELSE IF "states" \notin DOMAIN r.entities THEN Error("KeyError", "'states'")
     ELSE [r EXCEPT !.entities.companies = @ \o SubjectEntities.companies,
                    !.entities.states = @ \o SubjectEntities.states]

\* lines 293-316, with the weights in tenths: a field that is present and
\* truthy counts in total_weights; entities and key_fields score only when
\* one of their lists has content
weights ==
  [document_type |-> 3, entities |-> 2, key_fields |-> 3, tables |-> 1, summary |-> 1]

_calculate_confidence(result) ==
  LET truthy(field) ==
        /\ field \in DOMAIN result
        /\ CASE field \in {"document_type", "summary"} -> result[field] # NONE
             [] field = "tables" -> result[field] # <<>>
             [] OTHER -> DOMAIN result[field] # {}
      scores(field) ==
        /\ truthy(field)
        /\ field \in {"entities", "key_fields"} => AnyList(result[field])
      Sum(P(_)) ==
        (IF P("document_type") THEN weights.document_type ELSE 0)
          + (IF P("entities") THEN weights.entities ELSE 0)
          + (IF P("key_fields") THEN weights.key_fields ELSE 0)
          + (IF P("tables") THEN weights.tables ELSE 0)
          + (IF P("summary") THEN weights.summary ELSE 0)
  IN RatioOrZero(Sum(scores), Sum(truthy))

\* lines 318-344: score and total_checks are incremented together
gemini_calculate_domain_confidence(result, doc_text) ==
  LET n == CountTrue(<<
             Get(result, "document_type", NONE) # NONE,
             get_states(doc_text) # <<>>,
             get_product_categories(doc_text) # <<>>,
             Get(Get(result, "key_fields", EmptyDict), "registration_numbers", <<>>) # <<>> >>)
  IN RatioOrZero(n, n)

\* lines 346-374
gemini_generate_flags(result, confidence) ==
  LET key_fields == Get(result, "key_fields", EmptyDict)
  IN Flags(confidence < Hundredths(50),
           Get(result, "document_type", NONE) = NONE,
           ~AnyList(Get(result, "entities", EmptyDict)),
           Get(key_fields, "dates", <<>>) = <<>>,
           Get(key_fields, "registration_numbers", <<>>) = <<>>,
           get_product_categories(Get(result, "text", EmptyText)) = <<>>)

\* sum(len(v) for v in d.values())
RECURSIVE SumLen(_)
SumLen(d) ==
  IF DOMAIN d = {} THEN 0
  ELSE LET k == CHOOSE k \in DOMAIN d : TRUE
       IN Len(d[k]) + SumLen([x \in DOMAIN d \ {k} |-> d[x]])

\* lines 223-291. The entities and key_fields dicts taken from raw_result are
\* updated in place, so the confidence and the flags are computed from the
\* updated raw_result; a default dict (key absent) is not put into raw_result.
\* related_document_types, a list, is left out of metadata.
gemini_convert_to_classification_result(raw_result) ==
  LET doc_text == Get(raw_result, "text", EmptyText)
      found == get_document_type(doc_text)
      base_type == found[2]
      doc_type == IF found[1] # NONE THEN found[1]
                  ELSE Get(raw_result, "document_type", NONE)
      states == get_states(doc_text)
      company_matches == get_company_codes(doc_text)
      raw_companies == Get(Get(raw_result, "entities", EmptyDict), "companies", <<>>)
      matched == [i \in 1..Len(company_matches) |-> company_matches[i][2]]
      companies == raw_companies
                     \o SelectSeq(matched, LAMBDA name : name \notin Range(raw_companies))
      company_codes == [i \in 1..Len(company_matches) |-> company_matches[i][1]]
      entities ==
        SetKey(SetKey(Get(raw_result, "entities", [k \in EntityKeys |-> <<>>]),
                      "companies", companies),
               "states", states)
      key_fields0 == Get(raw_result, "key_fields", [k \in KeyFieldKeys |-> <<>>])
      key_fields ==
        IF states # <<>>
        THEN SetKey(key_fields0, "registration_numbers",
                    ValidNumbers(Get(key_fields0, "registration_numbers", <<>>), states))
        ELSE key_fields0
      updated == [k \in DOMAIN raw_result |->
                    IF k = "entities" THEN entities
                    ELSE IF k = "key_fields" THEN key_fields
                    ELSE raw_result[k]]
      base_confidence == _calculate_confidence(updated)
      domain_confidence == gemini_calculate_domain_confidence(updated, doc_text)
      confidence == (base_confidence + domain_confidence) \div 2
      flags == gemini_generate_flags(updated, confidence)
      metadata == [has_tables |-> Get(raw_result, "tables", <<>>) # <<>>,
                   entity_count |-> SumLen(entities),
                   field_count |-> SumLen(key_fields),
                   classifier |-> ClassifierName("gemini"),
                   domain_confidence |-> domain_confidence,
                   product_categories |-> get_product_categories(doc_text),
                   base_type |-> base_type,
                   company_codes |-> company_codes]
  IN ClassificationResult(
       [document_type |-> doc_type,
        client_code |-> NONE,
        confidence |-> confidence,
        entities |-> entities,
        key_fields |-> key_fields,
        metadata |-> metadata,
        summary |-> Get(raw_result, "summary", NONE),
        flags |-> flags])

\* lines 44-82, the body of the try: outcome is what json.loads yields for the
\* model's answer, or the exception the call or the parse raised
gemini_try(source_type, file, md, outcome) ==
  IF source_type = "file" /\ file = "missing"
  THEN Error("FileNotFoundError", "File not found")
  ELSE IF source_type = "file" /\ file = "over_20MB"
  THEN Error("ValueError", "File size exceeds 20MB limit")
  ELSE IF source_type \notin {"file", "bytes", "text"}
  THEN Error("ValueError", "Unsupported source type")
  ELSE IF IsError(outcome) THEN outcome
  ELSE LET raw_result == IF Truthy(md) THEN gemini_enhance_with_metadata(outcome, md)
                         ELSE outcome
       IN IF IsError(raw_result) THEN raw_result
          ELSE gemini_convert_to_classification_result(raw_result)

\* ------------------------------------------------------------ classify_document
SourceTypes == {"file", "bytes", "text", "invalid_type"}
FileStates == {"missing", "readable", "over_20MB"}

\* what the backend can yield for a source: its output, or an exception
Outcomes(backend) ==
  IF backend = "docling"
  THEN DoclingDocuments \cup {Error("Exception", "Processing failed")}
  ELSE GeminiOutputs \cup {Error("ValueError", "Failed to parse Gemini response as JSON")}

AllOutcomes == UNION {Outcomes(backend) : backend \in Backends}

\* classify_document of either backend (docling.py 42-83, gemini.py 39-85):
\* whatever the try raises is turned into _create_error_result(str(e)), so a
\* result is returned in every case. source is not a field of the Python
\* result: it records which call produced it.
classify_document(backend, source, source_type, md, file, clients, outcome) ==
  LET r == IF backend = "docling"
           THEN docling_try(source_type, file # "missing", md, clients, outcome)
           ELSE gemini_try(source_type, file, md, outcome)
  IN SetKey(IF IsError(r) THEN _create_error_result(backend, r.msg) ELSE r,
            "source", source)

\* ------------------------- classify_batch, docling.py 85-106, gemini.py 87-112
Docs == {"a.pdf", "b.pdf"}

\* seq[lo:hi] for 0 <= lo <= hi, with Python's clamping
PySlice(seq, lo, hi) ==
  IF lo >= Len(seq) THEN <<>> ELSE SubSeq(seq, lo + 1, Min(hi, Len(seq)))

\* zip(a, b): stops at the shorter argument
Zip(a, b) == [t \in 1..Min(Len(a), Len(b)) |-> <<a[t], b[t]>>]

SourceLists == UNION {[1..n -> Docs] : n \in 0..MaxSources}

\* the metadata argument: absent, or a list of dicts with at most one dict
\* per source
MetadataArgs(sources) ==
  {Null} \cup {[list |-> q] :
                 q \in UNION {[1..n -> MetadataDicts] : n \in 0..Len(sources)}}

\* line 94 of either backend: the list the chunks are cut from
metadata_list(backend, metadata, sources) ==
  IF backend = "docling"
  THEN IF metadata # Null THEN metadata.list
       ELSE [t \in 1..Len(sources) |-> "{}"]
  ELSE IF metadata # Null /\ Len(metadata.list) > 0 THEN metadata.list
       ELSE [t \in 1..Len(sources) |-> NONE]

\* what the backend yields for the two files of the batches: a.pdf is a
\* registration with every field found, b.pdf a document in which nothing is
\* found (the Gemini answer for it has a partial entities object)
DocumentOf(backend, source) ==
  IF backend = "docling"
  THEN IF source = "a.pdf"
       THEN [document_type |-> "registration", companies |-> <<"Test Corp">>,
             products |-> <<"BioForce">>, states |-> <<"CA">>,
             dates |-> <<"2024-02-11">>, registration_numbers |-> <<"REG-1">>,
             product_categories |-> <<"fertilizer">>,
             extraction_confidence |-> Hundredths(95)]
       ELSE [document_type |-> NONE, companies |-> <<>>, products |-> <<>>,
             states |-> <<>>, dates |-> <<>>, registration_numbers |-> <<>>,
             product_categories |-> <<>>, extraction_confidence |-> Hundredths(0)]
  ELSE IF source = "a.pdf"
       THEN [document_type |-> "registration", summary |-> "summary",
             text |-> [document_type |-> "registration", states |-> <<"CA">>,
                       product_categories |-> <<"fertilizer">>,
                       company_codes |-> << <<"EEA", "Elemental Enzymes">> >>],
             entities |-> [companies |-> <<"Test Corp">>, products |-> <<"BioForce">>,
                           states |-> <<>>],
             key_fields |-> [dates |-> <<"2024-02-11">>,
                             registration_numbers |-> <<"REG-1">>, amounts |-> <<>>]]
       ELSE [document_type |-> NONE, summary |-> NONE, text |-> EmptyText,
             entities |-> [companies |-> <<>>]]

\* the result of one task of a batch: the sources are readable files, no
\* client is configured, and ok tells whether the backend processed the file
\* or raised
TaskResult(backend, source, md, ok) ==
  classify_document(backend, source, "file", md, "readable", {},
                    IF ok THEN DocumentOf(backend, source)
                    ELSE CHOOSE e \in Outcomes(backend) : IsError(e))

\* lines 96-103 for loop value i: create the chunk's tasks, or return (line 106/112)
StartChunk(i) ==
  /\ cb_i' = i
  /\ IF i < Len(cb_sources)
     THEN LET batch_sources == PySlice(cb_sources, i, i + cb_max_concurrent)
              batch_metadata ==
                PySlice(metadata_list(cb_backend, cb_metadata, cb_sources),
                        i, i + cb_max_concurrent)
              pairs == Zip(batch_sources, batch_metadata)
          IN /\ cb_tasks' = [t \in 1..Len(pairs) |->
                               [source |-> pairs[t][1], metadata |-> pairs[t][2],
                                done |-> FALSE, result |-> Null]]
             /\ cb_pc' = "gather"
     ELSE /\ cb_tasks' = <<>>
          /\ cb_pc' = "done"

\* classify_batch is entered: lines 93-103
ClassifyBatchBegins ==
  /\ cb_pc = "called"
  /\ cb_results' = <<>>
  /\ StartChunk(0)
  /\ UNCHANGED <<cb_backend, cb_sources, cb_metadata, cb_max_concurrent>>
  /\ UNCHANGED <<callVars, batchVars, documentVars, factoryVars, securityVars, domainVars>>

\* one classify_document task of the chunk resolves; ok is whether the backend
\* processed the source
TaskResolves(t, ok) ==
  /\ cb_pc = "gather"
  /\ t \in 1..Len(cb_tasks)
  /\ ~cb_tasks[t].done
  /\ cb_tasks' = [cb_tasks EXCEPT
                    ![t].done = TRUE,
                    ![t].result = TaskResult(cb_backend, cb_tasks[t].source,
                                             cb_tasks[t].metadata, ok)]
  /\ UNCHANGED <<cb_backend, cb_sources, cb_metadata, cb_max_concurrent, cb_pc,
                 cb_i, cb_results>>
  /\ UNCHANGED <<callVars, batchVars, documentVars, factoryVars, securityVars, domainVars>>

\* gemini.py 106-110: gather(..., return_exceptions=True) hands an exception a
\* task raised back as its result, and it is turned into an error result
\* (no task raises, classify_document catches everything); docling.py 104
\* extends the list with the results as they are
Collected(backend, result) ==
  IF backend = "gemini" /\ IsError(result)
  THEN SetKey(_create_error_result(backend, result.msg), "source", NONE)
  ELSE result

\* a gather that returns as soon as one task of the chunk has resolved
GatherReturnsFirstCompleted ==
  /\ cb_pc = "gather"
  /\ \E t \in 1..Len(cb_tasks) : cb_tasks[t].done
  /\ cb_results' = cb_results \o [t \in 1..Len(cb_tasks) |->
                                    Collected(cb_backend, cb_tasks[t].result)]
  /\ StartChunk(cb_i + cb_max_concurrent)
  /\ UNCHANGED <<cb_backend, cb_sources, cb_metadata, cb_max_concurrent>>
  /\ UNCHANGED <<callVars, batchVars, documentVars, factoryVars, securityVars, domainVars>>

\* asyncio.gather returns the chunk's results in task order; they are appended
\* and the loop goes on (docling 103-104, gemini 103-110)
GatherReturns ==
  /\ cb_pc = "gather"
  /\ \A t \in 1..Len(cb_tasks) : cb_tasks[t].done
  /\ cb_results' = cb_results \o [t \in 1..Len(cb_tasks) |->
                                    Collected(cb_backend, cb_tasks[t].result)]
  /\ StartChunk(cb_i + cb_max_concurrent)
  /\ UNCHANGED <<cb_backend, cb_sources, cb_metadata, cb_max_concurrent>>
  /\ UNCHANGED <<callVars, batchVars, documentVars, factoryVars, securityVars, domainVars>>

\* a caller calls classify_batch(sources, metadata=..., max_concurrent=k)
InitClassify ==
  /\ InitService
  /\ InitNoDocument
  /\ InitNoFactory
  /\ InitNoSecurity
  /\ InitNoDomain
  /\ cb_backend \in Backends
  /\ cb_sources \in SourceLists
  /\ cb_metadata \in MetadataArgs(cb_sources)
  /\ cb_max_concurrent \in 1..MaxConcurrent
  /\ cb_pc = "called"
  /\ cb_i = 0
  /\ cb_tasks = <<>>
  /\ cb_results = <<>>

NextClassify ==
  \/ ClassifyBatchBegins
  \/ \E t \in 1..MaxConcurrent, ok \in BOOLEAN : TaskResolves(t, ok)
  \/ GatherReturns

SpecClassify == InitClassify /\ [][NextClassify]_vars

\* --------------------------------- a classify_document call, docling.py 42-83
\* the raise statements before the backend is asked (docling 53-54, 72-73;
\* gemini 48-54, 72-73)
RefusedEarly ==
  \/ cd_source_type = "file" /\ cd_file = "missing"
  \/ cd_backend = "gemini" /\ cd_source_type = "file" /\ cd_file = "over_20MB"
  \/ cd_source_type \notin {"file", "bytes", "text"}

\* the source is refused: the exception is caught by the except clause of
\* the same function, which returns an error result; nothing is raised
ClassifyDocumentRefuses ==
  /\ cd_pc = "called"
  /\ RefusedEarly
  /\ cd_result' = classify_document(cd_backend, "source", cd_source_type,
                                    cd_metadata, cd_file, cd_clients, Null)
  /\ cd_raised' = Null
  /\ cd_pc' = "returned"
  /\ UNCHANGED <<cd_backend, cd_source_type, cd_file, cd_metadata, cd_clients,
                 cd_outcome>>
  /\ UNCHANGED <<callVars, batchVars, classifyVars, factoryVars, securityVars, domainVars>>

\* the call is suspended at the await on the backend (docling 55-71, gemini
\* 67 and 76)
ClassifyDocumentAwaits ==
  /\ cd_pc = "called"
  /\ ~RefusedEarly
  /\ cd_pc' = "backend"
  /\ UNCHANGED <<cd_backend, cd_source_type, cd_file, cd_metadata, cd_clients,
                 cd_outcome, cd_result, cd_raised>>
  /\ UNCHANGED <<callVars, batchVars, classifyVars, factoryVars, securityVars, domainVars>>

\* the backend resolves with an output or an exception; the rest of the try
\* and the except clause run, and a result is returned
BackendResolves(outcome) ==
  /\ cd_pc = "backend"
  /\ outcome \in Outcomes(cd_backend)
  /\ cd_outcome' = outcome
  /\ cd_result' = classify_document(cd_backend, "source", cd_source_type,
                                    cd_metadata, cd_file, cd_clients, outcome)
  /\ cd_raised' = Null
  /\ cd_pc' = "returned"
  /\ UNCHANGED <<cd_backend, cd_source_type, cd_file, cd_metadata, cd_clients>>
  /\ UNCHANGED <<callVars, batchVars, classifyVars, factoryVars, securityVars, domainVars>>

\* a caller calls classify_document(source, source_type, metadata); the state
\* of a file matters when the source is a path
InitDocument ==
  /\ InitService
  /\ InitNoClassify
  /\ InitNoFactory
  /\ InitNoSecurity
  /\ InitNoDomain
  /\ cd_backend \in Backends
  /\ cd_source_type \in SourceTypes
  /\ cd_file \in (IF cd_source_type # "file" THEN {NONE}
                  ELSE IF cd_backend = "gemini" THEN FileStates
                  ELSE FileStates \ {"over_20MB"})
  /\ cd_metadata \in SourceMetadata
  /\ cd_clients \in (IF cd_backend = "docling" THEN ClientConfigs ELSE {{}})
  /\ cd_pc = "called"
  /\ cd_outcome = Null
  /\ cd_result = Null
  /\ cd_raised = Null

NextDocument ==
  \/ ClassifyDocumentRefuses
  \/ ClassifyDocumentAwaits
  \/ \E outcome \in AllOutcomes : BackendResolves(outcome)

SpecDocument == InitDocument /\ [][NextDocument]_vars

\* ------------------------------------------------ ClassifierFactory, factory.py
\* the names callers use; "test" is not registered by the class statement
Names == {"gemini", "docling", "test"}

\* the classes callers pass to register_classifier: the two built-in ones,
\* TestClassifier (a subclass that defines the three methods, no __init__),
\* PartialClassifier (a subclass that leaves the abstract methods
\* undefined) and InvalidClassifier (a class that is not a subclass)
Classes ==
  {"GeminiClassifier", "DoclingClassifier", "TestClassifier", "PartialClassifier",
   "InvalidClassifier"}

\* issubclass(classifier_class, BaseDocumentClassifier)
issubclass(classifier_class) == classifier_class # "InvalidClassifier"

\* the keyword arguments of create_classifier: none, or api_key
Opts == {"{}", "{api_key}"}

\* get_classifier_info()["description"]
Description(classifier_class) ==
  CASE classifier_class = "GeminiClassifier" ->
         "Uses Google's Gemini Flash model for document classification and extraction"
    [] classifier_class = "DoclingClassifier" ->
         "Uses IBM's Docling library for high-fidelity local document processing"
    [] OTHER -> "Test classifier"

\* classifier_class(**kwargs): the exception the construction raises, or Null
\* when it yields an instance (gemini.py 27-29 needs an API key, from the
\* argument or the environment; DoclingClassifier.__init__ and object() take
\* no api_key; an abstract class is not instantiable)
ConstructionError(classifier_class, kwargs, api_key_set) ==
  CASE classifier_class = "GeminiClassifier" ->
         IF kwargs = "{api_key}" \/ api_key_set THEN Null
         ELSE Error("ValueError", "Google API key is required")
    [] classifier_class = "PartialClassifier" ->
         Error("TypeError", "Can't instantiate abstract class PartialClassifier")
    [] OTHER ->
         IF kwargs = "{}" THEN Null
         ELSE Error("TypeError", "got an unexpected keyword argument 'api_key'")

\* the record of a call on the factory: what was called on which registry,
\* and the exception it raised or the value it returned
FactoryCall(op, name, arg, raised_exc, returned) ==
  [op |-> op, name |-> name, arg |-> arg, before |-> registry,
   raised |-> raised_exc, returned |-> returned]

\* a register that keeps the class a name is already bound to
RegisterKeepsFirst(name, classifier_class) ==
  /\ IF ~issubclass(classifier_class)
     THEN /\ factory_call' = FactoryCall("register", name, classifier_class,
                 Error("ValueError", "Classifier must implement BaseDocumentClassifier"),
                 Null)
          /\ UNCHANGED <<registry, latest>>
     ELSE /\ registry' = IF name \in DOMAIN registry THEN registry
                         ELSE SetKey(registry, name, classifier_class)
          /\ latest' = SetKey(latest, name, classifier_class)
          /\ factory_call' = FactoryCall("register", name, classifier_class, Null, Null)
  /\ UNCHANGED <<env_api_key, instances>>
  /\ UNCHANGED <<callVars, batchVars, classifyVars, documentVars, securityVars, domainVars>>

\* lines 25-38
register_classifier(name, classifier_class) ==
  /\ IF ~issubclass(classifier_class)
     THEN /\ factory_call' = FactoryCall("register", name, classifier_class,
                 Error("ValueError", "Classifier must implement BaseDocumentClassifier"),
                 Null)
          /\ UNCHANGED <<registry, latest>>
     ELSE /\ registry' = SetKey(registry, name, classifier_class)
          /\ latest' = SetKey(latest, name, classifier_class)
          /\ factory_call' = FactoryCall("register", name, classifier_class, Null, Null)
  /\ UNCHANGED <<env_api_key, instances>>
  /\ UNCHANGED <<callVars, batchVars, classifyVars, documentVars, securityVars, domainVars>>

\* lines 40-64: an instance is the class it was made from and its number
create_classifier(name, kwargs) ==
  /\ instances < MaxInstances
  /\ IF name \notin DOMAIN registry
     THEN /\ factory_call' = FactoryCall("create", name, kwargs,
                 Error("ValueError", "Unknown classifier"), Null)
          /\ UNCHANGED instances
     ELSE LET classifier_class == registry[name]
              e == ConstructionError(classifier_class, kwargs, env_api_key)
          IN IF e # Null
             THEN /\ factory_call' = FactoryCall("create", name, kwargs, e, Null)
                  /\ UNCHANGED instances
             ELSE /\ factory_call' = FactoryCall("create", name, kwargs, Null,
                         [class |-> classifier_class, id |-> instances + 1])
                  /\ instances' = instances + 1
  /\ UNCHANGED <<registry, latest, env_api_key>>
  /\ UNCHANGED <<callVars, batchVars, classifyVars, documentVars, securityVars, domainVars>>

\* a listing without the try: the first construction that fails ends it
ListPropagatesFailure ==
  /\ LET failing == {name \in DOMAIN registry :
                       ConstructionError(registry[name], "{}", env_api_key) # Null}
     IN IF failing # {}
        THEN factory_call' = FactoryCall("list", NONE, NONE,
               ConstructionError(registry[CHOOSE name \in failing : TRUE], "{}",
                                 env_api_key),
               Null)
        ELSE factory_call' = FactoryCall("list", NONE, NONE, Null,
               [name \in DOMAIN registry |-> Text(<<Description(registry[name])>>)])
  /\ UNCHANGED <<registry, latest, env_api_key, instances>>
  /\ UNCHANGED <<callVars, batchVars, classifyVars, documentVars, securityVars, domainVars>>

\* lines 66-82: a temporary instance per registered class; the except clause
\* turns a failed construction into the placeholder text
list_available_classifiers ==
  /\ factory_call' = FactoryCall("list", NONE, NONE, Null,
       [name \in DOMAIN registry |->
          LET e == ConstructionError(registry[name], "{}", env_api_key)
          IN IF e = Null THEN Text(<<Description(registry[name])>>)
             ELSE Text(<<"(Configuration required) ", e.msg>>)])
  /\ UNCHANGED <<registry, latest, env_api_key, instances>>
  /\ UNCHANGED <<callVars, batchVars, classifyVars, documentVars, securityVars, domainVars>>

\* the factory in a process with or without GOOGLE_API_KEY
InitFactory ==
  /\ InitService
  /\ InitNoClassify
  /\ InitNoDocument
  /\ InitNoSecurity
  /\ InitNoDomain
  /\ registry = [gemini |-> "GeminiClassifier", docling |-> "DoclingClassifier"]
  /\ latest = registry
  /\ env_api_key \in BOOLEAN
  /\ instances = 0
  /\ factory_call = Null

NextFactory ==
  \/ \E name \in Names, classifier_class \in Classes :
       register_classifier(name, classifier_class)
  \/ \E name \in Names, kwargs \in Opts : create_classifier(name, kwargs)
  \/ list_available_classifiers

SpecFactory == InitFactory /\ [][NextFactory]_vars

\* --------------------------------------- SecurityService, security_service.py
\* line 36
trusted_domains == {"example.com"}

\* line 38, in MB (sizes of this model are whole MB)
max_attachment_size == 25

\* lines 39-42
allowed_attachment_types ==
  {"application/pdf", "image/jpeg", "image/png", "application/msword",
   "application/vnd.openxmlformats-officedocument.wordprocessingml.document"}

\* str.lower() on the tokens of this model
Lower(t) ==
  CASE t = "PDF" -> "pdf"
    [] t = "PNG" -> "png"
    [] t = "URGENT" -> "urgent"
    [] t = "RENEWAL" -> "renewal"
    [] t = "Elemental" -> "elemental"
    [] t = "Enzymes" -> "enzymes"
    [] t = "Agriculture" -> "agriculture"
    [] t = "Arborjet" -> "arborjet"
    [] t = "Inc" -> "inc"
    [] t = "EE" -> "ee"
    [] t = "EEA" -> "eea"
    [] t = "ARB" -> "arb"
    [] t = "Delta" -> "delta"
    [] t = "Analytical" -> "analytical"
    [] t = "Corporation" -> "corporation"
    [] t = "DEL" -> "del"
    [] t = "DAC" -> "dac"
    [] OTHER -> t

\* the characters of a sender that are not in [\w.-]; the other tokens of a
\* sender are maximal runs of [\w.-]
Separators == {"@", " ", "<", ">"}

\* re.search(r'@([\w.-]+)', sender): group 1 of the first match, or None
SearchDomain(sender) ==
  LET hits == {i \in 1..(Len(sender) - 1) :
                 sender[i] = "@" /\ sender[i + 1] \notin Separators}
  IN IF hits = {} THEN NONE
     ELSE sender[(CHOOSE i \in hits : \A j \in hits : i <= j) + 1]

\* the From values of the messages: plain addresses, a value without a
\* domain, and values with a display name before the address
Senders ==
  {<<"test", "@", "example.com">>,
   <<"suspicious", "@", "malicious-domain.com">>,
   <<"invalid-sender">>,
   <<"user", "@">>,
   <<"Accounts", " ", "<", "billing", "@", "example.com", ">">>,
   <<"ceo", "@", "example.com", " ", "<", "attacker", "@", "evil.org", ">">>}

\* blocked_senders as a deployment fills it (line 37 leaves it empty)
BlockLists == {{}, {<<"test", "@", "example.com">>}}

\* an audit.log_security_violation call (lines 260-266)
Violation(violation_type) ==
  [op |-> "log_security_violation", violation_type |-> violation_type]

\* lines 185-207: whether the sender is safe, and the violations logged
verify_sender(sender, blocked_senders) ==
  IF sender \in blocked_senders
  THEN [safe |-> FALSE, log |-> <<Violation("blocked_sender")>>]
  ELSE IF SearchDomain(sender) = NONE
  THEN [safe |-> FALSE, log |-> <<Violation("invalid_sender_format")>>]
  ELSE [safe |-> SearchDomain(sender) \in trusted_domains, log |-> <<>>]

\* attachments as objects with a filename (its parts between the dots) and,
\* each optional, a size, data and a filetype attribute
Attachments ==
  {[filename |-> <<"test", "pdf">>, size |-> 1],
   [filename |-> <<"large", "pdf">>, size |-> 26],
   [filename |-> <<"exact", "PDF">>, size |-> 25, filetype |-> "application/pdf"],
   [filename |-> <<"suspicious", "exe">>],
   [filename |-> <<"photo", "PNG">>, data |-> 2, filetype |-> "image/png"],
   [filename |-> <<"scan", "bin">>, size |-> 1, filetype |-> "application/pdf"],
   [filename |-> <<"notes", "docx">>, size |-> 1]}

hasattr(object, name) == name \in DOMAIN object

\* lines 124-130
SizeOf(attachment) ==
  IF hasattr(attachment, "size") THEN attachment.size
  ELSE IF hasattr(attachment, "data") THEN attachment.data
  ELSE 0

\* lines 144-152: the type guessed from the extension, or None
GuessedType(filename) ==
  LET ext == Lower(filename[Len(filename)])
  IN CASE ext = "pdf" -> "application/pdf"
       [] ext = "doc" -> "application/msword"
       [] ext = "docx" ->
            "application/vnd.openxmlformats-officedocument.wordprocessingml.document"
       [] ext \in {"jpg", "jpeg"} -> "image/jpeg"
       [] ext = "png" -> "image/png"
       [] OTHER -> NONE

\* lines 140-152
FileTypeOf(attachment) ==
  IF hasattr(attachment, "filetype") THEN attachment.filetype
  ELSE GuessedType(attachment.filename)

\* lines 103-119: the is_safe entry of the scan result
scan_attachment(attachment) ==
  \/ /\ Len(attachment.filename) >= 2
     /\ Lower(attachment.filename[Len(attachment.filename)]) = "pdf"
  \/ /\ hasattr(attachment, "filetype")
     /\ attachment.filetype = "application/pdf"

\* lines 121-170: the loop returns at the first attachment it rejects
RECURSIVE scan_attachments(_)
scan_attachments(attachments) ==
  IF Len(attachments) = 0 THEN [safe |-> TRUE, log |-> <<>>]
  ELSE LET attachment == attachments[1]
           filetype == FileTypeOf(attachment)
       IN IF SizeOf(attachment) > max_attachment_size
          THEN [safe |-> FALSE, log |-> <<Violation("attachment_size_exceeded")>>]
          ELSE IF filetype = NONE \/ filetype \notin allowed_attachment_types
          THEN [safe |-> FALSE, log |-> <<Violation("unauthorized_file_type")>>]
          ELSE IF ~scan_attachment(attachment)
          THEN [safe |-> FALSE, log |-> <<Violation("malicious_attachment")>>]
          ELSE scan_attachments(Tail(attachments))

\* lines 212-219: each pattern as the words it needs, in this order, on a line
suspicious_patterns ==
  <<(<<"urgent", "transfer">>), (<<"bank", "verify">>), (<<"password", "reset">>),
    (<<"suspicious", "activity">>), (<<"malicious">>), (<<"suspicious", "message">>)>>

\* re.search of a pattern of suspicious_patterns in a content
SearchPattern(pattern, content) ==
  IF Len(pattern) = 1
  THEN \E i \in 1..Len(content) : Lower(content[i]) = pattern[1]
  ELSE \E i, j \in 1..Len(content) :
         /\ i < j
         /\ Lower(content[i]) = pattern[1]
         /\ Lower(content[j]) = pattern[2]

\* the bodies of the messages: none, harmless ones, and ones a pattern finds
Plains ==
  {Null,
   [text |-> <<"transfer", "is", "urgent">>],
   [text |-> <<"URGENT", "wire", "transfer">>],
   [text |-> <<"a", "suspicious", "message", "with", "malicious", "content">>]}

\* lines 209-231
verify_content_safety(msg) ==
  LET content == msg.subject \o <<" ">> \o (IF msg.plain = Null THEN <<>> ELSE msg.plain.text)
  IN IF \E k \in 1..Len(suspicious_patterns) : SearchPattern(suspicious_patterns[k], content)
     THEN [safe |-> FALSE, log |-> <<Violation("suspicious_content")>>]
     ELSE [safe |-> TRUE, log |-> <<>>]

\* _calculate_threat_level testing the number of failures first
ThreatLevelCountFirst(failed_checks) ==
  IF Len(failed_checks) = 0 THEN "low"
  ELSE IF Len(failed_checks) > 1 THEN "medium"
  ELSE IF "attachment_scan" \in Range(failed_checks) THEN "high"
  ELSE "low"

\* lines 233-241
_calculate_threat_level(failed_checks) ==
  IF Len(failed_checks) = 0 THEN "low"
  ELSE IF "attachment_scan" \in Range(failed_checks) THEN "high"
  ELSE IF Len(failed_checks) > 1 THEN "medium"
  ELSE "low"

\* a verdict that is safe unless the attachments failed
VerdictSafeUnlessAttachment(checks_passed, checks_failed) ==
  [is_safe |-> "attachment_scan" \notin Range(checks_failed),
   checks_passed |-> checks_passed,
   checks_failed |-> checks_failed, scan_date |-> utcnow,
   threat_level |-> _calculate_threat_level(checks_failed)]

\* lines 86-96
Verdict(checks_passed, checks_failed) ==
  [is_safe |-> Len(checks_failed) = 0, checks_passed |-> checks_passed,
   checks_failed |-> checks_failed, scan_date |-> utcnow,
   threat_level |-> _calculate_threat_level(checks_failed)]

\* an audit.log_security_event call (lines 55-59, 68-72, 80-84)
SecurityEvent(event_type) == [op |-> "log_security_event", event_type |-> event_type]

\* the outcome of one check recorded: lines 51-59, 64-72, 76-84
RecordCheck(check, event_type, outcome) ==
  /\ sv_log' = sv_log \o outcome.log
                 \o (IF outcome.safe THEN <<>> ELSE <<SecurityEvent(event_type)>>)
  /\ sv_passed' = IF outcome.safe THEN Append(sv_passed, check) ELSE sv_passed
  /\ sv_failed' = IF outcome.safe THEN sv_failed ELSE Append(sv_failed, check)

\* lines 46-59
VerifyEmailChecksSender ==
  /\ sv_pc = "called"
  /\ RecordCheck("sender_verification", "suspicious_sender",
                 verify_sender(sv_message.sender, sv_blocked))
  /\ sv_pc' = "attachments"
  /\ UNCHANGED <<sv_message, sv_blocked, sv_result>>
  /\ UNCHANGED <<callVars, batchVars, classifyVars, documentVars, factoryVars, domainVars>>

\* lines 61-72: nothing is scanned or recorded for an empty list
VerifyEmailScansAttachments ==
  /\ sv_pc = "attachments"
  /\ IF sv_message.attachments # <<>>
     THEN RecordCheck("attachment_scan", "suspicious_attachment",
                      scan_attachments(sv_message.attachments))
     ELSE UNCHANGED <<sv_log, sv_passed, sv_failed>>
  /\ sv_pc' = "content"
  /\ UNCHANGED <<sv_message, sv_blocked, sv_result>>
  /\ UNCHANGED <<callVars, batchVars, classifyVars, documentVars, factoryVars, domainVars>>

\* the content check left out once an earlier check has failed
VerifyEmailChecksContentUnlessFailed ==
  /\ sv_pc = "content"
  /\ IF sv_failed = <<>>
     THEN RecordCheck("content_safety", "suspicious_content",
                      verify_content_safety(sv_message))
     ELSE UNCHANGED <<sv_log, sv_passed, sv_failed>>
  /\ sv_pc' = "log"
  /\ UNCHANGED <<sv_message, sv_blocked, sv_result>>
  /\ UNCHANGED <<callVars, batchVars, classifyVars, documentVars, factoryVars, domainVars>>

\* lines 74-84
VerifyEmailChecksContent ==
  /\ sv_pc = "content"
  /\ RecordCheck("content_safety", "suspicious_content",
                 verify_content_safety(sv_message))
  /\ sv_pc' = "log"
  /\ UNCHANGED <<sv_message, sv_blocked, sv_result>>
  /\ UNCHANGED <<callVars, batchVars, classifyVars, documentVars, factoryVars, domainVars>>

\* the verdict logged and the alert sent whatever the verdict is
LogSecurityCheckAlwaysAlerts ==
  /\ sv_pc = "log"
  /\ LET result == Verdict(sv_passed, sv_failed)
     IN /\ sv_result' = result
        /\ sv_log' = Append(sv_log,
             [op |-> "log_security_check", passed |-> result.checks_passed,
              failed |-> result.checks_failed, threat_level |-> result.threat_level])
        /\ sv_pc' = "alert"
  /\ UNCHANGED <<sv_message, sv_blocked, sv_passed, sv_failed>>
  /\ UNCHANGED <<callVars, batchVars, classifyVars, documentVars, factoryVars, domainVars>>

\* lines 86-99 and 243-251: the verdict is built and sent to the audit service
LogSecurityCheck ==
  /\ sv_pc = "log"
  /\ LET result == Verdict(sv_passed, sv_failed)
     IN /\ sv_result' = result
        /\ sv_log' = Append(sv_log,
             [op |-> "log_security_check", passed |-> result.checks_passed,
              failed |-> result.checks_failed, threat_level |-> result.threat_level])
        /\ sv_pc' = IF result.is_safe THEN "return" ELSE "alert"
  /\ UNCHANGED <<sv_message, sv_blocked, sv_passed, sv_failed>>
  /\ UNCHANGED <<callVars, batchVars, classifyVars, documentVars, factoryVars, domainVars>>

\* lines 253-258
SendSecurityAlert ==
  /\ sv_pc = "alert"
  /\ sv_log' = Append(sv_log,
       [op |-> "send_security_alert", threat_level |-> sv_result.threat_level,
        failed_checks |-> sv_result.checks_failed])
  /\ sv_pc' = "return"
  /\ UNCHANGED <<sv_message, sv_blocked, sv_passed, sv_failed, sv_result>>
  /\ UNCHANGED <<callVars, batchVars, classifyVars, documentVars, factoryVars, domainVars>>

\* line 101
VerifyEmailReturns ==
  /\ sv_pc = "return"
  /\ sv_pc' = "returned"
  /\ UNCHANGED <<sv_message, sv_blocked, sv_passed, sv_failed, sv_log, sv_result>>
  /\ UNCHANGED <<callVars, batchVars, classifyVars, documentVars, factoryVars, domainVars>>

\* lists of at most MaxAttachments attachments
AttachmentLists == UNION {[1..n -> Attachments] : n \in 0..MaxAttachments}

\* a verify_email call on a message, by a service with its block-list
InitSecurity ==
  /\ InitService
  /\ InitNoClassify
  /\ InitNoDocument
  /\ InitNoFactory
  /\ InitNoDomain
  /\ sv_message \in [id : {1}, sender : Senders, subject : {<<"Test", "Email">>},
                     plain : Plains, attachments : AttachmentLists]
  /\ sv_blocked \in BlockLists
  /\ sv_pc = "called"
  /\ sv_passed = <<>>
  /\ sv_failed = <<>>
  /\ sv_log = <<>>
  /\ sv_result = Null

NextSecurity ==
  \/ VerifyEmailChecksSender
  \/ VerifyEmailScansAttachments
  \/ VerifyEmailChecksContent
  \/ LogSecurityCheck
  \/ SendSecurityAlert
  \/ VerifyEmailReturns

SpecSecurity == InitSecurity /\ [][NextSecurity]_vars

\* ------------------------- VersionChecker and DomainConfig, version_checker.py,
\* ------------------------- domain_config.py
\* the value of a "version" key: a string that is a semantic version, a
\* string that is none ("latest"), or a number (YAML reads 1.0 as a float)
SemVer(major, minor, patch) == [kind |-> "semver", v |-> <<major, minor, patch>>]
NotSemVer == [kind |-> "text"]
YamlNumber == [kind |-> "number"]

\* semver.compare(ver1, ver2): -1, 0 or 1, or the exception parsing raises
\* (ValueError for a string that is no version, TypeError for a non-string)
semver_compare(ver1, ver2) ==
  LET bad == IF ver1.kind # "semver" THEN ver1 ELSE ver2
      a == ver1.v
      b == ver2.v
      k == CHOOSE i \in 1..4 :
             /\ i = 4 \/ a[i] # b[i]
             /\ \A j \in 1..(i - 1) : a[j] = b[j]
  IN IF ver1.kind # "semver" \/ ver2.kind # "semver"
     THEN [err |-> IF bad.kind = "number" THEN "TypeError" ELSE "ValueError"]
     ELSE [cmp |-> IF k = 4 THEN 0 ELSE IF a[k] < b[k] THEN 0 - 1 ELSE 1]

\* the names _load_yaml is called with (lines 36-43), without ".yaml"
LoadedConfigs ==
  <<"regulatory_actions", "product_categories", "state_specific", "validation_rules",
    "relationships", "state_patterns", "clients", "document_types">>

\* lines 74-80
MigrationConfigs ==
  <<"regulatory_actions", "product_categories", "document_types", "company_codes",
    "state_patterns">>

ConfigNames == Range(LoadedConfigs) \cup Range(MigrationConfigs)

\* version_control.yaml absent: lines 29-33
DefaultVersionControl ==
  [min_compatible_version |-> SemVer(1, 0, 0), current_versions |-> <<>>,
   migrations_required |-> <<>>]

\* the contents of version_control.yaml: current_versions and
\* migrations_required as their items, in the order of the file
VersionControls ==
  {Null,
   [min_compatible_version |-> SemVer(1, 0, 0),
    current_versions |-> << <<"clients", SemVer(1, 0, 0)>> >>,
    migrations_required |-> <<>>],
   [min_compatible_version |-> SemVer(1, 0, 0),
    current_versions |-> << <<"document_types", SemVer(1, 1, 0)>>,
                            <<"clients", SemVer(1, 0, 0)>>,
                            <<"relationships", SemVer(1, 0, 0)>> >>,
    migrations_required |-> << <<SemVer(1, 1, 0), <<"add base_type">> >> >>]}

\* lines 24-37
_load_version_control(version_file) ==
  IF version_file = Null THEN DefaultVersionControl ELSE version_file

\* dict.get on a list of items: the value of the key, or None
ItemGet(items, key) ==
  IF \E i \in 1..Len(items) : items[i][1] = key
  THEN items[CHOOSE i \in 1..Len(items) : items[i][1] = key][2]
  ELSE Null

\* lines 39-50: the "version" of a file that exists
_load_config_version(dir, config_name) == dir[config_name].version

\* a warning as the text logged
Warning(tokens) == Text(tokens)

\* the warnings of lines 73-87 for one file that exists and has a version,
\* or the exception line 74 lets through (it catches ValueError only)
CompatibilityOf(config_name, actual_version, expected_version, min_version) ==
  LET low == semver_compare(actual_version, min_version)
  IN IF "err" \in DOMAIN low
     THEN IF low.err = "ValueError"
          THEN [warnings |-> <<Warning(<<"Invalid version format in ", config_name>>)>>,
                raised |-> Null]
          ELSE [warnings |-> <<>>,
                raised |-> Error("TypeError", "not expecting a non-string version")]
     ELSE [warnings |->
             (IF low.cmp < 0
              THEN <<Warning(<<"Config ", config_name, " version ", actual_version,
                               " is below minimum compatible version ", min_version>>)>>
              ELSE <<>>)
             \o (IF actual_version # expected_version
                 THEN <<Warning(<<"Config ", config_name, " version ", actual_version,
                                  " does not match expected version ", expected_version>>)>>
                 ELSE <<>>),
           raised |-> Null]

\* lines 52-89, over the items of current_versions that are left
RECURSIVE check_compatibility(_, _, _)
check_compatibility(dir, version_control, items) ==
  IF Len(items) = 0 THEN [warnings |-> <<>>, raised |-> Null]
  ELSE LET config_name == items[1][1]
           expected_version == items[1][2]
           here ==
             IF dir[config_name] = Null
             THEN [warnings |-> <<Warning(<<"Missing config file: ", config_name>>)>>,
                   raised |-> Null]
             ELSE IF _load_config_version(dir, config_name) = Null
             THEN [warnings |-> <<Warning(<<"No version found in ", config_name>>)>>,
                   raised |-> Null]
             ELSE CompatibilityOf(config_name, _load_config_version(dir, config_name),
                                  expected_version,
                                  version_control.min_compatible_version)
           rest == check_compatibility(dir, version_control, Tail(items))
       IN IF here.raised # Null THEN here
          ELSE [warnings |-> here.warnings \o rest.warnings, raised |-> rest.raised]

\* lines 91-117. The comparison of line 115 is reached only for a name of
\* current_versions, after check_compatibility compared the same version
needs_migration(dir, version_control, config_name) ==
  /\ dir[config_name] # Null
  /\ _load_config_version(dir, config_name) # Null
  /\ ItemGet(version_control.current_versions, config_name) # Null
  /\ LET c == semver_compare(_load_config_version(dir, config_name),
                             ItemGet(version_control.current_versions, config_name))
     IN "cmp" \in DOMAIN c /\ c.cmp < 0

\* lines 142-147 over the items of migrations_required that are left
RECURSIVE MigrationSteps(_, _)
MigrationSteps(actual_version, items) ==
  IF Len(items) = 0 THEN <<>>
  ELSE LET c == semver_compare(actual_version, items[1][1])
       IN (IF "cmp" \in DOMAIN c /\ c.cmp < 0 THEN items[1][2] ELSE <<>>)
            \o MigrationSteps(actual_version, Tail(items))

\* lines 119-149
get_required_migrations(dir, version_control, config_name) ==
  IF ~needs_migration(dir, version_control, config_name) THEN <<>>
  ELSE MigrationSteps(_load_config_version(dir, config_name),
                      version_control.migrations_required)

\* the warnings of _load_yaml (lines 60-66) for the files loaded, in order
RECURSIVE LoadWarnings(_, _, _)
LoadWarnings(dir, version_control, names) ==
  IF Len(names) = 0 THEN <<>>
  ELSE (IF needs_migration(dir, version_control, names[1])
        THEN <<Warning(<<"Config ", names[1], ".yaml", " needs migration. Required steps: ",
                         get_required_migrations(dir, version_control, names[1])>>)>>
        ELSE <<>>)
         \o LoadWarnings(dir, version_control, Tail(names))

\* the warnings of _check_migrations (lines 72-85)
RECURSIVE _check_migrations(_, _, _)
_check_migrations(dir, version_control, names) ==
  IF Len(names) = 0 THEN <<>>
  ELSE (IF needs_migration(dir, version_control, names[1])
        THEN <<Warning(<<"Config ", names[1], " needs migration. Steps: ",
                         get_required_migrations(dir, version_control, names[1])>>)>>
        ELSE <<>>)
         \o _check_migrations(dir, version_control, Tail(names))

\* lines 54-70: the parsed file, {} when it is missing
_load_yaml(dir, config_name) ==
  IF dir[config_name] = Null THEN EmptyDict ELSE dir[config_name].data

\* the entries of document_types.yaml, in the order of the file; a fragment
\* is a word and finds a text that has the word
DocumentTypeData ==
  {<<[id |-> "renewal", canonical_name |-> "Registration Renewal",
      base_type |-> "registration", patterns |-> <<"renewal", "re-register">>],
     [id |-> "approval", canonical_name |-> "Approval Letter",
      base_type |-> "approval", patterns |-> <<"approved">>]>>,
   <<[id |-> "notice", canonical_name |-> "Notice", base_type |-> "notice"],
     [id |-> "renewal", canonical_name |-> "Registration Renewal",
      base_type |-> "registration", patterns |-> <<"renewal">>]>>}

\* the companies of clients.yaml, in the order of the file: the two clients
\* of tests/unit/test_client_identification.py, and two clients of which one
\* is named by a word of the other's name
ClientData ==
  {<<[code |-> "EEA", name |-> <<"Elemental", "Enzymes", "Agriculture">>,
      aliases |-> <<(<<"Elemental", "Enzymes">>), (<<"EE", "Agriculture">>)>>,
      domains |-> <<"elementalenzymes.com">>],
     [code |-> "ARB", name |-> <<"Arborjet", "Inc">>,
      aliases |-> <<(<<"Arborjet">>)>>, domains |-> <<"arborjet.com">>]>>,
   <<[code |-> "DEL", name |-> <<"Delta">>, aliases |-> <<>>, domains |-> <<>>],
     [code |-> "DAC", name |-> <<"Delta", "Analytical", "Corporation">>,
      aliases |-> <<(<<"Delta", "Analytical">>)>>,
      domains |-> <<"deltaanalytical.com">>]>>}

\* the "version" values of the rule file whose version varies
DocumentTypeVersions ==
  {Null, SemVer(0, 9, 0), SemVer(1, 0, 0), SemVer(1, 1, 0), NotSemVer, YamlNumber}

\* the configuration directories: each rule file is missing (None) or has a
\* version and data
ConfigDirs ==
  {[config_name \in ConfigNames |->
      CASE config_name = "document_types" -> document_types
        [] config_name = "clients" -> clients
        [] config_name = "relationships" -> relationships
        [] OTHER -> Null] :
     document_types \in {Null} \cup [version : DocumentTypeVersions,
                                     data : [document_types : DocumentTypeData]],
     clients \in {Null} \cup [version : {SemVer(1, 0, 0)},
                              data : [companies : ClientData]],
     relationships \in {Null, [version |-> SemVer(0, 9, 0), data |-> EmptyDict]}}

\* lines 246-281: the companies, {} when clients.yaml is missing
_load_client_patterns(dir) ==
  IF dir["clients"] = Null THEN <<>> ELSE Get(dir["clients"].data, "companies", <<>>)

\* the words of this model that len(word) > 3 leaves out
ShortWords == {"EE", "Inc"}

\* lines 96-102: document type id -> compiled pattern, in insertion order;
\* each fragment of an entry is assigned to the same key
CompileDocumentTypes(document_types) ==
  LET with_patterns ==
        SelectSeq(document_types,
                  LAMBDA doc_type : "patterns" \in DOMAIN doc_type /\ doc_type.patterns # <<>>)
  IN [i \in 1..Len(with_patterns) |->
        [id |-> with_patterns[i].id,
         regex |-> with_patterns[i].patterns[Len(with_patterns[i].patterns)]]]

\* lines 120-148: per client the alternatives of its pattern. company
\* ["patterns"] is the list line 279 stored: name, aliases, code, @domains
CompileCompanies(client_data) ==
  [i \in 1..Len(client_data) |->
     LET company == client_data[i]
         name == company.name
     IN [code |-> company.code,
         alternatives |->
           {name} \cup (IF Len(name) > 1
                        THEN {<<name[k]>> : k \in {j \in 1..Len(name) : name[j] \notin ShortWords}}
                        ELSE {})
             \cup Range(company.aliases)
             \cup {<<company.code>>}
             \cup {<<"@", company.domains[k]>> : k \in 1..Len(company.domains)}]]

\* lines 87-148
_compile_patterns(document_types, client_data) ==
  [document_types |-> CompileDocumentTypes(Get(document_types, "document_types", <<>>)),
   companies |-> CompileCompanies(client_data)]

\* the object the constructor leaves (lines 36-52)
DomainConfigObject(dir) ==
  [document_types |-> _load_yaml(dir, "document_types"),
   client_data |-> _load_client_patterns(dir),
   patterns |-> _compile_patterns(_load_yaml(dir, "document_types"),
                                  _load_client_patterns(dir))]

\* lines 18-52: DomainConfig(config_dir)
DomainConfigInit ==
  /\ dc_pc = "idle"
  /\ LET version_control == _load_version_control(dc_version_control)
         found == IF dc_version_control = Null
                  THEN <<Warning(<<"Version control file not found">>)>>
                  ELSE <<>>
         compatibility == check_compatibility(dc_dir, version_control,
                                              version_control.current_versions)
     IN IF compatibility.raised # Null
        THEN /\ dc_pc' = "failed"
             /\ dc_raised' = compatibility.raised
             /\ dc_warnings' = found
             /\ dc_self' = Null
        ELSE /\ dc_pc' = "ready"
             /\ dc_raised' = Null
             /\ dc_warnings' =
                  found \o compatibility.warnings
                    \o LoadWarnings(dc_dir, version_control, LoadedConfigs)
                    \o (IF dc_dir["clients"] = Null
                        THEN <<Warning(<<"Client patterns file not found">>)>>
                        ELSE <<>>)
                    \o _check_migrations(dc_dir, version_control, MigrationConfigs)
             /\ dc_self' = DomainConfigObject(dc_dir)
  /\ UNCHANGED <<dc_dir, dc_version_control, dc_query>>
  /\ UNCHANGED <<callVars, batchVars, classifyVars, documentVars, factoryVars, securityVars>>

\* str.lower() of each word of a text
LowerText(text) == [i \in 1..Len(text) |-> Lower(text[i])]

\* words in text (str.__contains__): the words occur next to each other
Contains(words, text) ==
  \E i \in 0..(Len(text) - Len(words)) :
    \A k \in 1..Len(words) : text[i + k] = words[k]

\* str.strip(): without the blanks at both ends
RECURSIVE Strip(_)
Strip(text) ==
  IF Len(text) > 0 /\ text[1] = " " THEN Strip(Tail(text))
  ELSE IF Len(text) > 0 /\ text[Len(text)] = " " THEN Strip(SubSeq(text, 1, Len(text) - 1))
  ELSE text

\* pattern.search(text) of a compiled document type pattern (re.IGNORECASE)
SearchFragment(regex, text) == Contains(<<Lower(regex)>>, LowerText(text))

\* lines 150-164, for the DomainConfig object self
DomainConfig_get_document_type(self, text) ==
  LET patterns == self.patterns.document_types
      hits == {i \in 1..Len(patterns) : SearchFragment(patterns[i].regex, text)}
      doc_types == Get(self.document_types, "document_types", <<>>)
  IN IF hits = {} THEN [canonical_name |-> NONE, base_type |-> NONE]
     ELSE LET doc_type_id == patterns[CHOOSE i \in hits : \A j \in hits : i <= j].id
              doc_type == doc_types[CHOOSE n \in 1..Len(doc_types) :
                                      doc_types[n].id = doc_type_id]
          IN [canonical_name |-> doc_type.canonical_name,
              base_type |-> doc_type.base_type]

\* the first index of a sequence of rule outcomes that is not None, or 0
FirstHit(outcomes) ==
  IF \A i \in 1..Len(outcomes) : outcomes[i] = Null THEN 0
  ELSE CHOOSE i \in 1..Len(outcomes) :
         outcomes[i] # Null /\ \A j \in 1..(i - 1) : outcomes[j] = Null

Answer(code, confidence) == [code |-> code, confidence |-> confidence]

\* the return of the loop of lines 321-328 for one client, or None
AliasRule(company, text) ==
  LET outcomes ==
        [k \in 1..Len(company.aliases) |->
           IF company.aliases[k] = Strip(text)
           THEN Answer(company.code, Hundredths(95))
           ELSE IF Contains(company.aliases[k], text)
           THEN Answer(company.code, Hundredths(85))
           ELSE Null]
  IN IF FirstHit(outcomes) = 0 THEN Null ELSE outcomes[FirstHit(outcomes)]

\* lines 298-352, for the DomainConfig object self: five loops over the
\* clients, each returning at its first hit
DomainConfig_identify_client(self, text) ==
  LET clients == self.client_data
      by_name == [i \in 1..Len(clients) |->
                    IF clients[i].name = Strip(text)
                    THEN Answer(clients[i].code, Hundredths(100))
                    ELSE IF Contains(clients[i].name, text)
                    THEN Answer(clients[i].code, Hundredths(90))
                    ELSE Null]
      by_alias == [i \in 1..Len(clients) |-> AliasRule(clients[i], text)]
      by_domain == [i \in 1..Len(clients) |->
                      IF \E k \in 1..Len(clients[i].domains) :
                           Contains(<<"@", clients[i].domains[k]>>, LowerText(text))
                      THEN Answer(clients[i].code, Hundredths(95))
                      ELSE Null]
      by_code == [i \in 1..Len(clients) |->
                    IF Contains(<<clients[i].code>>, text)
                    THEN Answer(clients[i].code, Hundredths(80))
                    ELSE Null]
      by_pattern == [i \in 1..Len(self.patterns.companies) |->
                       IF \E alternative \in self.patterns.companies[i].alternatives :
                            Contains(LowerText(alternative), LowerText(text))
                       THEN Answer(self.patterns.companies[i].code, Hundredths(75))
                       ELSE Null]
      loops == <<by_name, by_alias, by_domain, by_code, by_pattern>>
      hit == {n \in 1..Len(loops) : FirstHit(loops[n]) # 0}
  IN IF hit = {} THEN Answer(NONE, Hundredths(0))
     ELSE LET n == CHOOSE m \in hit : \A o \in hit : m <= o
          IN loops[n][FirstHit(loops[n])]

\* the texts clients are looked for in
ClientTexts ==
  {<<"Elemental", "Enzymes", "Agriculture">>,
   <<"Arborjet", " ">>,
   <<"Email", "contact", "@", "elementalenzymes.com">>,
   <<"EEA", "Registration">>,
   <<"arb", "license">>,
   <<"Some", "document", "mentioning", "Elemental">>,
   <<"Unknown", "document">>,
   <<"Email", "from", "Elemental", "Enzymes", "regarding">>,
   <<"Elemental", "Enzymes", "Agriculture", "contact", "@", "arborjet.com">>,
   <<"Delta", "Analytical">>,
   <<"Delta", "Analytical", "Corporation">>}

\* the texts document types are looked for in
DocumentTexts ==
  {<<"RENEWAL", "notice">>, <<"please", "re-register">>, <<"renewal", "approved">>,
   <<"approved">>, <<"hello">>}

\* a call of _identify_client on the object built
IdentifyClient(text) ==
  /\ dc_pc = "ready"
  /\ dc_query' = [op |-> "_identify_client", text |-> text,
                  answer |-> DomainConfig_identify_client(dc_self, text)]
  /\ UNCHANGED <<dc_dir, dc_version_control, dc_pc, dc_self, dc_warnings, dc_raised>>
  /\ UNCHANGED <<callVars, batchVars, classifyVars, documentVars, factoryVars, securityVars>>

\* a call of get_document_type on the object built
GetDocumentType(text) ==
  /\ dc_pc = "ready"
  /\ dc_query' = [op |-> "get_document_type", text |-> text,
                  answer |-> DomainConfig_get_document_type(dc_self, text)]
  /\ UNCHANGED <<dc_dir, dc_version_control, dc_pc, dc_self, dc_warnings, dc_raised>>
  /\ UNCHANGED <<callVars, batchVars, classifyVars, documentVars, factoryVars, securityVars>>

\* a configuration directory from which no DomainConfig is built yet
InitDomain ==
  /\ InitService
  /\ InitNoClassify
  /\ InitNoDocument
  /\ InitNoFactory
  /\ InitNoSecurity
  /\ dc_dir \in ConfigDirs
  /\ dc_version_control \in VersionControls
  /\ dc_pc = "idle"
  /\ dc_self = Null
  /\ dc_warnings = <<>>
  /\ dc_raised = Null
  /\ dc_query = Null

NextDomain ==
  \/ DomainConfigInit
  \/ \E text \in ClientTexts : IdentifyClient(text)
  \/ \E text \in DocumentTexts : GetDocumentType(text)

SpecDomain == InitDomain /\ [][NextDomain]_vars

\* ------------------------------------------------------------ specifications
Next ==
  \/ \E m \in Ids : process_email(m)
  \/ \E c \in Calls, v \in SecurityVerdicts : VerifyReturns(c, v)
  \/ \E c \in Calls : RejectNotifyReturns(c)
  \/ \E c \in Calls : RejectAuditReturns(c)
  \/ \E c \in Calls : ExtractReturns(c)
  \/ \E c \in Calls : ClassifyReturns(c)
  \/ \E c \in Calls : StoreReturns(c)
  \/ \E c \in Calls : LogSuccessReturns(c)
  \/ \E c \in Calls : StepRaises(c)
  \/ \E c \in Calls : HandlerNotifyReturns(c)
  \/ \E c \in Calls : HandlerAuditReturns(c)
  \/ \E c \in Calls : FinalNotifyReturns(c)
  \/ \E msgs \in InboxLists : BatchStart(msgs)
  \/ BatchFetchFails
  \/ BatchNotifyReturns
  \/ BatchAuditReturns

\* the service as the repository drives it: calls are awaited one after the
\* other; pipeline steps may raise, the sinks acknowledge
Spec == Init /\ [][Next]_vars

NextConcurrent ==
  \/ Next
  \/ \E m \in Ids : process_email_task(m)

\* callers that run process_email calls as concurrent tasks
SpecConcurrent == Init /\ [][NextConcurrent]_vars

NextSinkFault ==
  \/ Next
  \/ \E c \in Calls : SinkRaisesInTry(c)
  \/ \E c \in Calls : SinkRaisesInHandler(c)
  \/ BatchSinkRaises

\* the audit and notification sinks may raise as well
SpecSinkFault == Init /\ [][NextSinkFault]_vars

\* ------------------------------------------------------------------- claims
Started(c) == pc[c] # "idle"
Active(c) == pc[c] \notin {"idle", "returned", "raised"}
GatePassed(c) == security_result[c] # Null /\ security_result[c].is_safe
Rejected(c) == security_result[c] # Null /\ ~security_result[c].is_safe
Caught(c) == exc[c] # Null
BatchAborting == batch_pc \in {"send_error", "log_error", "raised"}
BatchCalls == {c \in Calls : owner[c] = "batch"}

\* C1: when extraction, classification or persistence raises for an item that
\* passed the security gate, retry_count is incremented by exactly one and the
\* record is RETRYING while retry_count does not exceed the retry bound, FAILED
\* only beyond it (the bound is 1 automatic retry); the first exception of a
\* fresh record leaves it RETRYING.
C1_RetryingWithinBound ==
  \A c \in Calls :
    (pc[c] = "returned" /\ GatePassed(c) /\ Caught(c)) =>
      /\ state[c].retry_count = 1
      /\ state[c].status =
           IF state[c].retry_count <= 1 THEN "RETRYING" ELSE "FAILED"

\* C2: COMPLETED and FAILED are absorbing: once the record stored for an id is
\* COMPLETED or FAILED, no operation changes the status stored for that id.
C2_TerminalAbsorbing ==
  [][\A id \in Ids :
       (processing_queue[id] # NoCall
        /\ get_processing_state(id).status \in {"COMPLETED", "FAILED"})
       => get_processing_state(id)'.status = get_processing_state(id).status]_vars

\* C3: when a pipeline step (verify_email included) raises for a fresh item,
\* process_email does not raise; the record it returns is FAILED, has
\* retry_count 1 and an error containing the message of the exception.
C3_StepExceptionYieldsFailed ==
  \A c \in Calls :
    (Caught(c) /\ exc[c].by \in PipelineSteps) =>
      /\ pc[c] # "raised"
      /\ pc[c] = "returned" =>
           /\ state[c].status = "FAILED"
           /\ state[c].retry_count = 1
           /\ state[c].error # Null
           /\ exc[c].msg \in Range(state[c].error.text)

C3_Witness ==
  \E c \in Calls :
    /\ pc[c] = "returned"
    /\ Caught(c)
    /\ exc[c].by = "verify_email"
    /\ state[c].retry_count = 1

\* C4: a verdict that is not safe makes process_email mark the record FAILED
\* with completed_at set and an error naming every failed check, send exactly
\* one error notification and one audit error entry, return the record, and
\* never invoke extraction, classification or persistence.
C4_SecurityRejection ==
  \A c \in Calls :
    Rejected(c) =>
      /\ pc[c] \in {"reject_send_error", "reject_log_error", "returned"}
      /\ state[c].status = "FAILED"
      /\ state[c].completed_at # NONE
      /\ state[c].error # Null
      /\ \A k \in Range(security_result[c].checks_failed) :
           k \in Range(state[c].error.text)
      /\ Range(trace[c]) \cap
           {"extract_content", "classify", "store_processed_email"} = {}
      /\ Count(trace[c], "send_error") = 1
      /\ pc[c] = "returned" => Count(trace[c], "log_error") = 1

C4_Witness ==
  \E c \in Calls :
    /\ pc[c] = "returned"
    /\ Rejected(c)
    /\ Len(security_result[c].checks_failed) = 2

\* C5: for an item that passes the gate and whose extraction, classification
\* and persistence succeed, verification, extraction, classification,
\* persistence and the success audit are invoked once each in that order; the
\* record is COMPLETED only after persistence returned; the returned record is
\* COMPLETED with error unset and started_at and completed_at set.
C5_SuccessPath ==
  \A c \in Calls :
    /\ (Started(c) /\ state[c].status = "COMPLETED") =>
         /\ "store_processed_email" \in Range(trace[c])
         /\ pc[c] \in {"log_success", "returned"}
    /\ (pc[c] = "returned" /\ GatePassed(c) /\ ~Caught(c)) =>
         /\ trace[c] = <<"verify_email", "extract_content", "classify",
                         "store_processed_email", "log_success">>
         /\ state[c].status = "COMPLETED"
         /\ state[c].error = Null
         /\ state[c].started_at # NONE
         /\ state[c].completed_at # NONE

C5_Witness ==
  \E c \in Calls :
    pc[c] = "returned" /\ GatePassed(c) /\ ~Caught(c)

\* C6: process_new_emails queries the message source exactly once and returns
\* one record per fetched message in fetch order; a rejected or failed item
\* never aborts the batch: the next message is processed.
C6_BatchOneRecordPerMessage ==
  /\ Count(batch_trace, "get_unread_inbox") = IF batch_pc = "idle" THEN 0 ELSE 1
  /\ \A i \in 1..Len(batch_results) :
       /\ i <= Len(batch_messages)
       /\ state[batch_results[i]].email_id = batch_messages[i]
       /\ pc[batch_results[i]] = "returned"
  /\ batch_pc = "done" => Len(batch_results) = Len(batch_messages)
  /\ batch_pc = "process_email" =>
       /\ Len(batch_results) < Len(batch_messages)
       /\ Cardinality(BatchCalls) = Len(batch_results) + 1
  /\ BatchCalls # {} => ~BatchAborting

C6_Witness ==
  /\ batch_pc = "done"
  /\ Len(batch_results) = 2
  /\ state[batch_results[1]].status = "FAILED"
  /\ Caught(batch_results[1])
  /\ Rejected(batch_results[2])

\* C7: when fetching the batch fails, process_new_emails sends one error
\* notification and one audit error entry and only then propagates the
\* original failure; no item record is created; the notify, audit and
\* propagate path is taken for a fetch failure only, never for an item failure.
C7_FetchFailureFatal ==
  /\ BatchAborting =>
       /\ batch_exc = Exception("get_unread_inbox")
       /\ BatchCalls = {}
       /\ batch_results = <<>>
  /\ batch_pc = "send_error" => batch_trace = <<"get_unread_inbox", "send_error">>
  /\ batch_pc \in {"log_error", "raised"} =>
       batch_trace = <<"get_unread_inbox", "send_error", "log_error">>
  /\ (batch_pc = "raised") = (batch_raised # Null)
  /\ batch_pc = "raised" => batch_raised = Exception("get_unread_inbox")

C7_Witness == batch_pc = "raised" /\ batch_raised = Exception("get_unread_inbox")

\* C8: an exception raised by an audit or notification call is never
\* propagated out of process_email or process_new_emails and never changes the
\* item's outcome: an item whose extraction, classification and persistence
\* succeeded ends COMPLETED even if the success audit fails.
C8_SinksBestEffort ==
  /\ \A c \in Calls :
       /\ pc[c] # "raised"
       /\ (pc[c] = "returned" /\ "log_success" \in Range(trace[c])) =>
            state[c].status = "COMPLETED"
  /\ batch_pc = "raised" => batch_raised = Exception("get_unread_inbox")

\* C9: access to the record store is serialized per item id: two process_email
\* calls for the same id never overlap between record creation and the final
\* status update, and the record stored for the id of a call in progress is
\* the record that call created.
C9_SerializedPerId ==
  \A c \in Calls :
    Active(c) =>
      /\ processing_queue[message[c]] = c
      /\ \A d \in Calls \ {c} : Active(d) => message[d] # message[c]

\* C10: for every list of sources, every max_concurrent >= 1 and every
\* metadata argument (absent, empty, or one entry per source), classify_batch
\* returns exactly len(sources) results, result i being the classification of
\* source i.
C10_BatchLengthAndOrder ==
  cb_pc = "done" =>
    /\ Len(cb_results) = Len(cb_sources)
    /\ \A t \in 1..Len(cb_results) : cb_results[t].source = cb_sources[t]

\* the single-item classifications in flight: tasks handed to asyncio.gather
\* that have not resolved
InFlight == {t \in 1..Len(cb_tasks) : ~cb_tasks[t].done}

\* C11: during classify_batch with max_concurrent = k at most k single-item
\* classifications are in flight at any moment, the tasks of the next chunk are
\* created only when every task of the current chunk has resolved, and
\* classify_batch returns only when nothing is in flight and the loop has
\* passed the last chunk.
C11_ChunkedBackpressure ==
  /\ [](/\ Cardinality(InFlight) <= cb_max_concurrent
        /\ cb_pc = "done" => InFlight = {} /\ cb_i >= Len(cb_sources))
  /\ [][cb_i' # cb_i => InFlight = {}]_vars

\* a chunk of two has resolved and been collected, the next chunk is in flight
C11_Witness ==
  /\ cb_pc = "gather"
  /\ cb_max_concurrent > 1
  /\ cb_i > 0
  /\ Len(cb_results) = cb_i
  /\ InFlight # {}

\* the result of an item whose backend call raised
BackendFailed(result) ==
  /\ "error" \in DOMAIN result.metadata
  /\ \E e \in Outcomes(cb_backend) : IsError(e) /\ result.metadata.error = e.msg

C13_SingleItemPropagates ==
  cd_pc \in {"returned", "raised"} =>
    /\ (cd_source_type = "file" /\ cd_file = "missing") =>
         /\ cd_pc = "raised"
         /\ cd_raised # Null
         /\ cd_raised.type = "FileNotFoundError"
    /\ cd_source_type \notin {"file", "bytes", "text"} =>
         /\ cd_pc = "raised"
         /\ cd_raised # Null
         /\ cd_raised.type = "ValueError"

\* C14: every ClassificationResult classify_document returns, on the success
\* and on the error path and for every backend output, has the keys companies,
\* products and states in entities and the keys dates, registration_numbers
\* and amounts in key_fields.
C14_CanonicalKeys ==
  cd_pc = "returned" =>
    /\ EntityKeys \subseteq DOMAIN cd_result.entities
    /\ KeyFieldKeys \subseteq DOMAIN cd_result.key_fields

\* a classify_document call has returned the conversion of a backend output
Succeeded ==
  /\ cd_pc = "returned"
  /\ "CLASSIFICATION_ERROR" \notin Range(cd_result.flags)

\* C15: every ClassificationResult classify_document returns has a confidence
\* between 0 and 1, for every base confidence the backend reports and every
\* combination of domain checks, on the success and on the error path.
C15_ConfidenceInUnitInterval ==
  cd_pc = "returned" =>
    /\ Hundredths(0) <= cd_result.confidence
    /\ cd_result.confidence <= Hundredths(100)

\* a Gemini answer in which every field that is present has content is
\* converted: base confidence and domain confidence are both 1
C15_Witness ==
  /\ Succeeded
  /\ cd_result.metadata.domain_confidence = Hundredths(100)
  /\ cd_result.confidence = Hundredths(100)

\* the domain checks the spec counts, read off a result: document type
\* present, a state found, a product category matched, a validated
\* registration number present
DomainChecks(result) ==
  <<result.document_type # NONE,
    Get(result.entities, "states", <<>>) # <<>>,
    result.metadata.product_categories # <<>>,
    Get(result.key_fields, "registration_numbers", <<>>) # <<>> >>

\* C16: the confidence of a successfully classified result is the mean of the
\* backend's base confidence and a domain confidence that is the number of
\* domain checks that hold divided by 4; nothing else enters it (for Docling
\* the base confidence is the processor's extraction confidence).
C16_ConfidenceFormula ==
  Succeeded =>
    LET domain == Hundredths(25 * CountTrue(DomainChecks(cd_result)))
    IN /\ cd_result.metadata.domain_confidence = domain
       /\ cd_backend = "docling" =>
            cd_result.confidence = (cd_outcome.extraction_confidence + domain) \div 2

\* C17: the flags of every returned ClassificationResult are taken from the
\* fixed vocabulary, LOW_CONFIDENCE is among them exactly when the result's
\* confidence is below 0.5, and MISSING_DOCUMENT_TYPE exactly when the
\* result's document_type is null.
C17_FlagsConsistent ==
  cd_pc = "returned" =>
    /\ Range(cd_result.flags) \subseteq
         {"LOW_CONFIDENCE", "MISSING_DOCUMENT_TYPE", "NO_ENTITIES_FOUND",
          "NO_DATES_FOUND", "NO_REGISTRATION_NUMBERS", "NO_PRODUCT_CATEGORY_MATCH",
          "CLASSIFICATION_ERROR"}
    /\ "LOW_CONFIDENCE" \in Range(cd_result.flags)
         <=> cd_result.confidence < Hundredths(50)
    /\ "MISSING_DOCUMENT_TYPE" \in Range(cd_result.flags)
         <=> cd_result.document_type = NONE


\* the classes that define classify_document, get_classifier_info and
\* classify_batch, the interface of base.py 23-78
ImplementsInterface(classifier_class) ==
  classifier_class \in {"GeminiClassifier", "DoclingClassifier", "TestClassifier"}

Registered(op) == factory_call # Null /\ factory_call.op = op

\* C18: register(name, ctor) fails with a ValueError whenever ctor does not
\* implement the classifier interface, and a failed register leaves the
\* registry exactly as it was before the call
C18_RegisterRejectsNonClassifier ==
  Registered("register") =>
    /\ ~ImplementsInterface(factory_call.arg) =>
         /\ factory_call.raised # Null
         /\ factory_call.raised.type = "ValueError"
    /\ factory_call.raised # Null => registry = factory_call.before

UnknownBackend(e) == e # Null /\ e.type = "ValueError" /\ e.msg = "Unknown classifier"

\* C19 as stated: create(name, opts) fails with the unknown-backend error
\* exactly when name is not registered; otherwise it returns a new instance
\* of the class most recently registered under that name; the registry is
\* not modified
C19_CreateReturnsInstance ==
  Registered("create") =>
    /\ UnknownBackend(factory_call.raised) <=> factory_call.name \notin DOMAIN factory_call.before
    /\ factory_call.name \in DOMAIN factory_call.before =>
         /\ factory_call.returned # Null
         /\ factory_call.returned.class = latest[factory_call.name]
         /\ factory_call.returned.id = instances
    /\ registry = factory_call.before

\* C19 amended: create(name, opts) fails with the unknown-backend error
\* exactly when name is not registered; otherwise it calls the class most
\* recently registered under that name with opts and either returns the new
\* instance or fails with the error that construction raised; the registry
\* is not modified
C19_CreateConstructsLatest ==
  Registered("create") =>
    /\ UnknownBackend(factory_call.raised) <=> factory_call.name \notin DOMAIN factory_call.before
    /\ factory_call.name \in DOMAIN factory_call.before =>
         LET e == ConstructionError(latest[factory_call.name], factory_call.arg, env_api_key)
         IN IF e # Null
            THEN factory_call.raised = e /\ factory_call.returned = Null
            ELSE /\ factory_call.raised = Null
                 /\ factory_call.returned # Null
                 /\ factory_call.returned.class = latest[factory_call.name]
                 /\ factory_call.returned.id = instances
                 /\ instances > 0
    /\ registry = factory_call.before

\* a second instance made from a class that replaced a built-in one
C19_Witness ==
  /\ Registered("create")
  /\ factory_call.name = "docling"
  /\ factory_call.returned # Null
  /\ factory_call.returned.class = "TestClassifier"
  /\ factory_call.returned.id = 2

\* C20: listAvailable never fails and returns one description per name
\* registered at the time of the call, the built-in ones included; a class
\* whose construction without options fails is listed with the
\* configuration-required placeholder
C20_ListNeverFails ==
  Registered("list") =>
    /\ factory_call.raised = Null
    /\ factory_call.returned # Null
    /\ DOMAIN factory_call.returned = DOMAIN factory_call.before
    /\ {"gemini", "docling"} \subseteq DOMAIN factory_call.returned
    /\ \A name \in DOMAIN factory_call.before :
         LET e == ConstructionError(factory_call.before[name], "{}", env_api_key)
         IN IF e # Null
            THEN factory_call.returned[name] = Text(<<"(Configuration required) ", e.msg>>)
            ELSE factory_call.returned[name] = Text(<<Description(factory_call.before[name])>>)
    /\ registry = factory_call.before

\* a listing of three names of which gemini lacks its API key
C20_Witness ==
  /\ Registered("list")
  /\ factory_call.raised = Null
  /\ DOMAIN factory_call.returned = {"gemini", "docling", "test"}
  /\ factory_call.before["gemini"] = "GeminiClassifier"
  /\ ~env_api_key
  /\ factory_call.returned["gemini"] =
       Text(<<"(Configuration required) ", "Google API key is required">>)
  /\ factory_call.returned["docling"] = Text(<<Description("DoclingClassifier")>>)


VerdictReturned == sv_pc = "returned"

NoDuplicates(seq) == \A i, j \in 1..Len(seq) : i # j => seq[i] # seq[j]

\* C21 as stated: verify runs all three checks for every item, with or
\* without attachments and whatever the earlier checks found: in every
\* verdict each of the three checks is in exactly one of checks_passed and
\* checks_failed
C21_AllChecksRecorded ==
  VerdictReturned =>
    \A k \in 1..Len(Checks) :
      Count(sv_result.checks_passed, Checks[k])
        + Count(sv_result.checks_failed, Checks[k]) = 1

\* C21 amended: sender_verification and content_safety run for every item
\* whatever the earlier checks found, and attachment_scan runs exactly for
\* the items that have attachments; every check that ran is in exactly one
\* of checks_passed and checks_failed, and a check that did not run in neither
C21_ChecksRunWithoutShortCircuit ==
  VerdictReturned =>
    \A k \in 1..Len(Checks) :
      Count(sv_result.checks_passed, Checks[k])
        + Count(sv_result.checks_failed, Checks[k])
      = IF Checks[k] = "attachment_scan" /\ sv_message.attachments = <<>>
        THEN 0 ELSE 1

\* the third check recorded after the first two have failed
C21_Witness ==
  /\ VerdictReturned
  /\ sv_message.attachments # <<>>
  /\ sv_result.checks_failed = <<"sender_verification", "attachment_scan">>
  /\ sv_result.checks_passed = <<"content_safety">>

\* C22: threat_level is a function of checks_failed: low when nothing
\* failed, high whenever attachment_scan failed, medium when more than one
\* check failed and attachment_scan did not, low when exactly one check other
\* than attachment_scan failed
C22_ThreatLevel ==
  sv_result # Null =>
    LET failed == Range(sv_result.checks_failed)
    IN /\ failed = {} => sv_result.threat_level = "low"
       /\ "attachment_scan" \in failed => sv_result.threat_level = "high"
       /\ Cardinality(failed) > 1 /\ "attachment_scan" \notin failed
            => sv_result.threat_level = "medium"
       /\ Cardinality(failed) = 1 /\ "attachment_scan" \notin failed
            => sv_result.threat_level = "low"

\* attachment_scan failed together with another check
C22_Witness ==
  /\ VerdictReturned
  /\ sv_result.checks_failed = <<"sender_verification", "attachment_scan">>
  /\ sv_result.threat_level = "high"

\* the sender's address has a domain: an "@" followed by a name
HasDomainPart(sender) ==
  \E i \in 1..(Len(sender) - 1) : sender[i] = "@" /\ sender[i + 1] \notin Separators

\* the domain of the sender's address: what follows its last "@"
AddressDomain(sender) ==
  LET hits == {i \in 1..(Len(sender) - 1) :
                 sender[i] = "@" /\ sender[i + 1] \notin Separators}
  IN sender[(CHOOSE i \in hits : \A j \in hits : j <= i) + 1]

\* C23: sender verification is default-deny: a sender without an @domain
\* part, on the block-list, or whose domain is not in the allow-list has
\* sender_verification in checks_failed and is_safe false;
\* sender_verification passes only for a sender that is not blocked and whose
\* domain is in the allow-list
C23_SenderDefaultDeny ==
  VerdictReturned =>
    LET sender == sv_message.sender
        allowed == /\ sender \notin sv_blocked
                   /\ HasDomainPart(sender)
                   /\ AddressDomain(sender) \in trusted_domains
    IN /\ ~allowed => /\ "sender_verification" \in Range(sv_result.checks_failed)
                      /\ ~sv_result.is_safe
       /\ "sender_verification" \in Range(sv_result.checks_passed) => allowed

\* an attachment the size limit or the allow-list of types rejects
Rejected24(attachment) ==
  \/ SizeOf(attachment) > max_attachment_size
  \/ FileTypeOf(attachment) \notin allowed_attachment_types

\* C24: attachment_scan fails if and only if some attachment is larger than
\* the maximum or has a type outside the allow-list; attachments within the
\* limit and of allow-listed types pass, and an oversized attachment gives
\* is_safe false and threat_level high
C24_AttachmentScan ==
  VerdictReturned /\ sv_message.attachments # <<>> =>
    LET attachments == sv_message.attachments
    IN /\ "attachment_scan" \in Range(sv_result.checks_failed)
            <=> \E i \in 1..Len(attachments) : Rejected24(attachments[i])
       /\ (\A i \in 1..Len(attachments) : ~Rejected24(attachments[i]))
            => "attachment_scan" \in Range(sv_result.checks_passed)
       /\ (\E i \in 1..Len(attachments) : SizeOf(attachments[i]) > max_attachment_size)
            => ~sv_result.is_safe /\ sv_result.threat_level = "high"

\* the entries of the log made by one method of a collaborator
Logged(op) == SelectSeq(sv_log, LAMBDA entry : entry.op = op)

C29_VerdictConsistent ==
  sv_result # Null =>
    /\ sv_result.is_safe <=> sv_result.checks_failed = <<>>
    /\ Range(sv_result.checks_passed) \cap Range(sv_result.checks_failed) = {}
    /\ NoDuplicates(sv_result.checks_passed)
    /\ NoDuplicates(sv_result.checks_failed)
    /\ sv_result.is_safe => sv_result.threat_level = "low"

\* a safe verdict of a message with attachments
C29_Witness ==
  /\ VerdictReturned
  /\ sv_result.is_safe
  /\ sv_result.checks_passed = Checks
  /\ sv_result.threat_level = "low"


\* C30: in every reachable state of the record store, the states between
\* the awaited calls of process_email included, each record is well-formed:
\* its status is never PENDING; completed_at is unset while it is PROCESSING
\* and set when it is COMPLETED or FAILED; error is unset when it is
\* COMPLETED; retry_count is 0 while PROCESSING or COMPLETED and never more
\* than the retry bound (one retry) plus one
C30_RecordsWellFormed ==
  \A id \in Ids :
    LET record == get_processing_state(id) IN
    record # Null =>
      /\ record.status # "PENDING"
      /\ record.status = "PROCESSING" => record.completed_at = NONE
      /\ record.status \in {"COMPLETED", "FAILED"} => record.completed_at # NONE
      /\ record.status = "COMPLETED" => record.error = Null
      /\ record.status \in {"PROCESSING", "COMPLETED"} => record.retry_count = 0
      /\ record.retry_count <= 1 + 1

\* ---------------------------------------------------------------- DomainConfig

\* whether the client satisfies the rule of the given rank for the text: 1 exact
\* full name, 2 exact alias, 3 email domain, 4 full name contained, 5 alias
\* contained, 6 code as a word, 7 the compiled alternation
SatisfiesRule(self, i, rank, text) ==
  LET company == self.client_data[i]
  IN CASE rank = 1 -> company.name = Strip(text)
       [] rank = 2 -> \E k \in 1..Len(company.aliases) : company.aliases[k] = Strip(text)
       [] rank = 3 -> \E k \in 1..Len(company.domains) :
                        Contains(<<"@", company.domains[k]>>, LowerText(text))
       [] rank = 4 -> Contains(company.name, text)
       [] rank = 5 -> \E k \in 1..Len(company.aliases) : Contains(company.aliases[k], text)
       [] rank = 6 -> Contains(<<company.code>>, text)
       [] rank = 7 -> \E alternative \in self.patterns.companies[i].alternatives :
                        Contains(LowerText(alternative), LowerText(text))

\* the confidence of each rank, in the order of the ranks
RuleConfidence ==
  <<Hundredths(100), Hundredths(95), Hundredths(95), Hundredths(90), Hundredths(85),
    Hundredths(80), Hundredths(75)>>

\* the result of the highest-ranked rule that any client satisfies
PrecedenceLadder(self, text) ==
  LET satisfied == {rank \in 1..7 : \E i \in 1..Len(self.client_data) :
                                      SatisfiesRule(self, i, rank, text)}
  IN IF satisfied = {} THEN Answer(NONE, Hundredths(0))
     ELSE LET rank == CHOOSE r \in satisfied : \A o \in satisfied : r <= o
              i == CHOOSE n \in 1..Len(self.client_data) :
                     /\ SatisfiesRule(self, n, rank, text)
                     /\ \A m \in 1..(n - 1) : ~SatisfiesRule(self, m, rank, text)
          IN Answer(self.client_data[i].code, RuleConfidence[rank])

\* C26: _identify_client returns the result of the highest-ranked rule that any
\* client satisfies: exact full name (1.0), exact alias (0.95), email domain
\* (0.95), full name contained (0.9), alias contained (0.85), code as a word
\* (0.8), compiled alternation (0.75), else (None, 0.0).
C26_PrecedenceLadder ==
  (dc_query # Null /\ dc_query.op = "_identify_client")
    => dc_query.answer = PrecedenceLadder(dc_self, dc_query.text)

\* the first entry, in the declared order, of which some fragment matches
FirstDeclaredMatch(self, text) ==
  LET doc_types == Get(self.document_types, "document_types", <<>>)
      hits == {n \in 1..Len(doc_types) :
                 /\ "patterns" \in DOMAIN doc_types[n]
                 /\ \E k \in 1..Len(doc_types[n].patterns) :
                      SearchFragment(doc_types[n].patterns[k], text)}
  IN IF hits = {} THEN [canonical_name |-> NONE, base_type |-> NONE]
     ELSE LET n == CHOOSE m \in hits : \A o \in hits : m <= o
          IN [canonical_name |-> doc_types[n].canonical_name,
              base_type |-> doc_types[n].base_type]

\* C27: get_document_type returns the canonical name and base type of the first
\* entry, in declared order, of which at least one fragment matches the text
\* without regard to case, and (None, None) when no entry has such a fragment.
C27_FirstEntryWithAnyFragment ==
  (dc_query # Null /\ dc_query.op = "get_document_type")
    => dc_query.answer = FirstDeclaredMatch(dc_self, dc_query.text)

\* C28: the construction of DomainConfig never raises for what the rule files'
\* versions are or for a rule file that is missing: it leaves the object, every
\* warning logged once, and a missing file as a category no query matches.
C28_ConstructionOnlyWarns ==
  dc_pc # "idle"
    => /\ dc_raised = Null
       /\ dc_pc = "ready"
       /\ NoDuplicates(dc_warnings)
       /\ dc_dir["document_types"] = Null
            => \A text \in DocumentTexts :
                 DomainConfig_get_document_type(dc_self, text).canonical_name = NONE
       /\ dc_dir["clients"] = Null
            => \A text \in ClientTexts :
                 DomainConfig_identify_client(dc_self, text).code = NONE

====
